---- MODULE Spec2Model ----
(***************************************************************************)
(* Precious Metals India: the price update / broadcast loop of server.js   *)
(* and the MCX client (class MCXApi).                                      *)
(*                                                                         *)
(* Numbers.  Prices are integers.  Real factors are kept as exact          *)
(* fractions: city multipliers in 1/1000, a Math.random() draw r in 1/100  *)
(* (0..99), every number read from the upstream payload in 1/100 (a last   *)
(* traded price of 105350 is 10535000, a changePercent of 0.45 is 45).     *)
(* Math.round(a*b/d) is computed exactly (a half rounds up, as Math.round  *)
(* does); the machine's integers are 32 bits wide, so a*b is never formed. *)
(*                                                                         *)
(* Time.  Durations are not modelled, only the order of events: cron       *)
(* callbacks, fetch completions and setTimeout callbacks interleave at     *)
(* will, except that timers of equal delay fire in the order they were     *)
(* set and a 5 minute timer outlives every fetch (10 s timeout) that was   *)
(* in flight when it was set.                                              *)
(***************************************************************************)
EXTENDS Integers, Sequences, FiniteSets, TLC

\* ---------------------------------------------------------------- bounds
\* cron firings (fast ticks and regime shifts together) in one behaviour
MaxTime == 2
\* sockets that may be connected at the same time
MaxSockets == 2
\* snapshots (initialData, priceUpdate) the client handles in one behaviour
MaxMessages == 3
\* sockets the client creates in one behaviour, the first included
MaxClientSockets == 2
\* connection attempts counted since the last successful connect
MaxAttempts == 6

\* ------------------------------------------------------ static tables
METRO_CITIES ==
  << [id |-> "mumbai",        name |-> "Mumbai",           state |-> "Maharashtra"],
     [id |-> "delhi",         name |-> "Delhi",            state |-> "Delhi"],
     [id |-> "bangalore",     name |-> "Bangalore",        state |-> "Karnataka"],
     [id |-> "kolkata",       name |-> "Kolkata",          state |-> "West Bengal"],
     [id |-> "chennai",       name |-> "Chennai",          state |-> "Tamil Nadu"],
     [id |-> "hyderabad",     name |-> "Hyderabad",        state |-> "Telangana"],
     [id |-> "pune",          name |-> "Pune",             state |-> "Maharashtra"],
     [id |-> "ahmedabad",     name |-> "Ahmedabad",        state |-> "Gujarat"],
     [id |-> "jaipur",        name |-> "Jaipur",           state |-> "Rajasthan"],
     [id |-> "surat",         name |-> "Surat",            state |-> "Gujarat"],
     [id |-> "lucknow",       name |-> "Lucknow",          state |-> "Uttar Pradesh"],
     [id |-> "kanpur",        name |-> "Kanpur",           state |-> "Uttar Pradesh"],
     [id |-> "nagpur",        name |-> "Nagpur",           state |-> "Maharashtra"],
     [id |-> "indore",        name |-> "Indore",           state |-> "Madhya Pradesh"],
     [id |-> "thane",         name |-> "Thane",            state |-> "Maharashtra"],
     [id |-> "bhopal",        name |-> "Bhopal",           state |-> "Madhya Pradesh"],
     [id |-> "visakhapatnam", name |-> "Visakhapatnam",    state |-> "Andhra Pradesh"],
     [id |-> "pimpri",        name |-> "Pimpri-Chinchwad", state |-> "Maharashtra"],
     [id |-> "patna",         name |-> "Patna",            state |-> "Bihar"],
     [id |-> "vadodara",      name |-> "Vadodara",         state |-> "Gujarat"] >>

NumCities == Len(METRO_CITIES)

CityIds == { METRO_CITIES[i].id : i \in 1..NumCities }

\* position of a configured city in METRO_CITIES (forEach order)
CityIndex(cityId) == CHOOSE i \in 1..NumCities : METRO_CITIES[i].id = cityId

\* keys in the order Object.keys() yields them: non-numeric keys in insertion
\* order, integer-like keys ("999", "925") in ascending numeric order
GoldKeys == << "24k", "22k", "18k" >>
SilverKeys == << "925", "999" >>

\* BASE_PRICES as the module is loaded
InitialBasePrices ==
  [ gold   |-> ("24k" :> 105500 @@ "22k" :> 96700 @@ "18k" :> 79100),
    silver |-> ("999" :> 124000 @@ "925" :> 114600) ]

\* cityVariations of generateCityPrice, in 1/1000
cityVariations ==
  ( "mumbai" :> 1020 @@ "delhi" :> 1010 @@ "bangalore" :> 1015 @@
    "kolkata" :> 1025 @@ "chennai" :> 1010 @@ "hyderabad" :> 1005 @@
    "pune" :> 1018 @@ "ahmedabad" :> 995 @@ "jaipur" :> 980 @@ "surat" :> 990 )

\* cityMultipliers of MCXApi.getCityMultiplier, in 1/1000
cityMultipliers ==
  ( "mumbai" :> 1025 @@ "delhi" :> 1015 @@ "bangalore" :> 1020 @@
    "kolkata" :> 1030 @@ "chennai" :> 1015 @@ "hyderabad" :> 1010 @@
    "pune" :> 1022 @@ "ahmedabad" :> 995 @@ "jaipur" :> 985 @@
    "surat" :> 990 @@ "lucknow" :> 1005 @@ "kanpur" :> 1000 @@
    "nagpur" :> 1002 @@ "indore" :> 998 @@ "thane" :> 1020 @@
    "bhopal" :> 1005 @@ "visakhapatnam" :> 1012 @@ "pimpri" :> 1018 @@
    "patna" :> 1008 @@ "vadodara" :> 995 )

\* cityMultipliers[cityId] || 1.000
getCityMultiplier(cityId) ==
  IF cityId \in DOMAIN cityMultipliers /\ cityMultipliers[cityId] # 0
  THEN cityMultipliers[cityId] ELSE 1000

\* --------------------------------------------------------- arithmetic
\* << floor(a*b/d), a*b mod d >> for b >= 0 and 0 < d <= 2^29, without forming
\* a*b: b is taken digit by digit in radix R = 2^30 \div d, so that no
\* intermediate value reaches 2^31
RECURSIVE MulDivMod(_, _, _)
MulDivMod(a, b, d) ==
  IF b = 0 THEN << 0, 0 >>
  ELSE LET R     == 1073741824 \div d
           h     == MulDivMod(a, b \div R, d)
           digit == b % R
           r     == R * h[2] + digit * (a % d)
       IN  << R * h[1] + digit * (a \div d) + (r \div d), r % d >>

\* Math.round(a*b/d): the nearest integer, a half rounds towards +infinity
MathRound(a, b, d) ==
  LET qr == IF b >= 0 THEN MulDivMod(a, b, d) ELSE MulDivMod(-a, -b, d)
  IN  qr[1] + (IF 2 * qr[2] >= d THEN 1 ELSE 0)

\* ------------------------------------------------------- Math.random()
\* the draws a stream can deliver, in 1/100 (Math.random() is in [0, 1))
RandomValues == << 0, 99, 50, 25, 75 >>

\* the streams of draws a handler run may see
Seeds == { 0, 1 }

\* the k-th draw (k = 0, 1, ...) of the stream chosen by seed
Random(seed, k) == RandomValues[((seed + k) % Len(RandomValues)) + 1]

\* trends[Math.floor(Math.random() * trends.length)]
getRandomTrend(r) == << "up", "down", "stable" >>[((r * 3) \div 100) + 1]

\* ------------------------------------------------- JavaScript values
\* a JSON / JavaScript value as the parser sees it; numbers are kept in 1/100
Undefined == [t |-> "undefined"]
JsNull == [t |-> "null"]
NaN == [t |-> "NaN"]
Num(n) == [t |-> "number", v |-> n]
Str(s) == [t |-> "string", v |-> s]

\* parseFloat of the strings the upstream payloads of this model carry: the
\* longest numeric prefix is read ("12abc" is 12, "1,05,350.00" is 1), NaN
\* when there is none
parseFloatString(s) ==
  CASE s = "105350"   -> Num(10535000)
    [] s = "124100.5" -> Num(12410050)
    [] s = "104900"   -> Num(10490000)
    [] s = "-5"       -> Num(-500)
    [] s = "0.3"      -> Num(30)
    [] s = "0"        -> Num(0)
    [] s = "0.45"     -> Num(45)
    [] s = "-0.25"    -> Num(-25)
    [] s = "0.1"      -> Num(10)
    [] s = "12abc"        -> Num(1200)
    [] s = "1,05,350.00"  -> Num(100)
    [] OTHER          -> NaN

\* parseFloat(x): a number stays, a string is parsed, anything else is NaN
parseFloat(x) ==
  CASE x.t = "number" -> x
    [] x.t = "string" -> parseFloatString(x.v)
    [] OTHER          -> NaN

\* parseFloat(x) || 0, in 1/100
parseFloatOrZero(x) ==
  LET n == parseFloat(x) IN IF n.t = "NaN" \/ n.v = 0 THEN 0 ELSE n.v

\* String.prototype.toUpperCase on the symbols of this model
toUpperCase(s) ==
  CASE s = "gold"   -> "GOLD"
    [] s = "Silver" -> "SILVER"
    [] OTHER        -> s

\* symbol.includes(sub) for an upper-cased symbol of this model
includes(symbol, sub) ==
  CASE sub = "GOLD"   -> symbol \in { "GOLD", "GOLDMINI", "GOLDM" }
    [] sub = "SILVER" -> symbol \in { "SILVER", "SILVERMINI", "SILVERMICRO" }
    [] OTHER          -> FALSE

\* ------------------------------------------------------------- MCXApi
\* one record of commodityData (the fields the server reads; change, high, low,
\* open, close and volume are parsed by the same parseFloat(..) || 0 and are
\* read nowhere)
Quote(symbol, ltp, changePercent, timestamp) ==
  [ t |-> "quote", symbol |-> symbol, ltp |-> ltp,
    changePercent |-> changePercent, timestamp |-> timestamp ]

\* truthiness of an optional object
Truthy(x) == x.t \notin { "undefined", "null" }

\* getFallbackData(): six Math.random() draws, in evaluation order
\* gold.ltp, gold.change, gold.changePercent, silver.ltp, silver.change,
\* silver.changePercent
getFallbackData(seed, k0, time) ==
  [ gold   |-> Quote("GOLD", 10520000 + (Random(seed, k0) - 50) * 1000,
                     (Random(seed, k0 + 2) - 50) * 2, time),
    silver |-> Quote("SILVER", 12380000 + (Random(seed, k0 + 3) - 50) * 2000,
                     (Random(seed, k0 + 5) - 50) * 3, time) ]

\* what reading a property of null, or calling a method a value lacks, throws
TypeError == [t |-> "TypeError"]

\* the body of data.forEach in parseMCXData for one item: the new
\* commodityData, or TypeError when the item cannot be read
parseItem(commodityData, item, time) ==
  IF item.t \in { "null", "undefined" } THEN TypeError
  ELSE IF item.t # "object" THEN commodityData
  ELSE IF ~Truthy(item.Symbol) THEN commodityData
  ELSE IF item.Symbol.t = "string" /\ item.Symbol.v = "" THEN commodityData
  ELSE IF item.Symbol.t # "string" THEN TypeError
  ELSE LET symbol == toUpperCase(item.Symbol.v)
           q == Quote(item.Symbol.v, parseFloatOrZero(item.LTP),
                      parseFloatOrZero(item.ChangePercent), time)
           g == IF includes(symbol, "GOLD")
                THEN [commodityData EXCEPT !.gold = q] ELSE commodityData
       IN  IF includes(symbol, "SILVER") THEN [g EXCEPT !.silver = q] ELSE g

RECURSIVE parseItems(_, _, _, _)
parseItems(commodityData, items, i, time) ==
  IF i > Len(items) THEN commodityData
  ELSE LET next == parseItem(commodityData, items[i], time)
       IN  IF next = TypeError THEN TypeError
           ELSE parseItems(next, items, i + 1, time)

\* parseMCXData(data): commodityData, {} for a non-array, the fallback data
\* when reading an item throws
parseMCXData(data, seed, time) ==
  LET empty == [ gold |-> Undefined, silver |-> Undefined ]
  IN  IF data.t # "array" THEN empty
      ELSE LET r == parseItems(empty, data.items, 1, time)
           IN  IF r = TypeError THEN getFallbackData(seed, 0, time) ELSE r

\* fetchLiveData(): what the awaited call resolves to for one response of the
\* upstream; it never rejects
fetchLiveData(response, seed, time) ==
  IF response.kind # "ok" THEN getFallbackData(seed, 0, time)
  ELSE IF ~Truthy(response.d) THEN getFallbackData(seed, 0, time)
  ELSE IF response.d.t = "badjson" THEN getFallbackData(seed, 0, time)
  ELSE parseMCXData(response.d, seed, time)

\* the request of fetchLiveData() failed: axios rejected (timeout, transport
\* error, non-2xx status), data.d is missing, or JSON.parse threw, so that
\* the catch block of fetchLiveData() ran
fetchError(response) ==
  \/ response.kind # "ok"
  \/ ~Truthy(response.d)
  \/ response.d.t = "badjson"

\* a getTrend() whose thresholds are inclusive: exactly +-0.1 is up or down
getTrend_Inclusive(changePercent) ==
  IF changePercent >= 10 THEN "up"
  ELSE IF changePercent <= -10 THEN "down"
  ELSE "stable"

\* getTrend(changePercent), changePercent in 1/100 of a percent
getTrend(changePercent) ==
  IF changePercent > 10 THEN "up"
  ELSE IF changePercent < -10 THEN "down"
  ELSE "stable"

\* getFallbackGoldPrices(cityId)
getFallbackGoldPrices(cityId) ==
  LET basePrice == 105200
      cityMultiplier == getCityMultiplier(cityId)
  IN  ( "24k" :> MathRound(basePrice, cityMultiplier, 1000) @@
        "22k" :> MathRound(basePrice * 917, cityMultiplier, 1000000) @@
        "18k" :> MathRound(basePrice * 750, cityMultiplier, 1000000) )

\* getFallbackSilverPrices(cityId)
getFallbackSilverPrices(cityId) ==
  LET basePrice == 123800
      cityMultiplier == getCityMultiplier(cityId)
  IN  ( "999" :> MathRound(basePrice, cityMultiplier, 1000) @@
        "925" :> MathRound(basePrice * 925, cityMultiplier, 1000000) )

\* calculateGoldPrices(goldMCXData, cityId); 24/23.88 = 200/199,
\* 22/23.88 = 550/597, 18/23.88 = 150/199, ltp in 1/100
calculateGoldPrices(goldMCXData, cityId) ==
  IF ~Truthy(goldMCXData) \/ goldMCXData.ltp = 0
  THEN getFallbackGoldPrices(cityId)
  ELSE LET mcxPrice == goldMCXData.ltp
           cityMultiplier == getCityMultiplier(cityId)
       IN  ( "24k" :> MathRound(mcxPrice, 200 * cityMultiplier, 199 * 100000) @@
             "22k" :> MathRound(mcxPrice, 550 * cityMultiplier, 597 * 100000) @@
             "18k" :> MathRound(mcxPrice, 150 * cityMultiplier, 199 * 100000) )

\* calculateSilverPrices(silverMCXData, cityId); 0.925 = 37/40
calculateSilverPrices(silverMCXData, cityId) ==
  IF ~Truthy(silverMCXData) \/ silverMCXData.ltp = 0
  THEN getFallbackSilverPrices(cityId)
  ELSE LET mcxPrice == silverMCXData.ltp
           cityMultiplier == getCityMultiplier(cityId)
       IN  ( "999" :> MathRound(mcxPrice, cityMultiplier, 100000) @@
             "925" :> MathRound(mcxPrice, 37 * cityMultiplier, 40 * 100000) )

\* mcxData.x?.changePercent || 0
changePercentOrZero(q) == IF Truthy(q) THEN q.changePercent ELSE 0

\* convertToLocationPrices() whose prices carry a draw that changes from call
\* to call
convertToLocationPrices_Jittered(mcxData, cities, time) ==
  [ cityId \in { cities[i].id : i \in 1..Len(cities) } |->
      [ cityInfo    |-> cities[CHOOSE i \in 1..Len(cities) : cities[i].id = cityId],
        gold        |-> [ karat \in DOMAIN calculateGoldPrices(mcxData.gold, cityId) |->
                            MathRound(calculateGoldPrices(mcxData.gold, cityId)[karat],
                                      9950 + Random(time, 0), 10000) ],
        silver      |-> calculateSilverPrices(mcxData.silver, cityId),
        lastUpdated |-> time,
        trend       |-> [ gold   |-> getTrend(changePercentOrZero(mcxData.gold)),
                          silver |-> getTrend(changePercentOrZero(mcxData.silver)) ],
        mcxData     |-> [ gold |-> mcxData.gold, silver |-> mcxData.silver ] ] ]

\* convertToLocationPrices(mcxData, cities): a fresh table, one bundle per city
convertToLocationPrices(mcxData, cities, time) ==
  [ cityId \in { cities[i].id : i \in 1..Len(cities) } |->
      [ cityInfo    |-> cities[CHOOSE i \in 1..Len(cities) : cities[i].id = cityId],
        gold        |-> calculateGoldPrices(mcxData.gold, cityId),
        silver      |-> calculateSilverPrices(mcxData.silver, cityId),
        lastUpdated |-> time,
        trend       |-> [ gold   |-> getTrend(changePercentOrZero(mcxData.gold)),
                          silver |-> getTrend(changePercentOrZero(mcxData.silver)) ],
        mcxData     |-> [ gold |-> mcxData.gold, silver |-> mcxData.silver ] ] ]

\* mcxData && (mcxData.gold || mcxData.silver)
hasQuote(mcxData) == Truthy(mcxData.gold) \/ Truthy(mcxData.silver)

\* ---------------------------------------------------------- server.js
\* generateCityPrice() without the city's variation
generateCityPrice_NoVariation(basePrice, cityId, r) ==
  MathRound(basePrice * 1000, 9950 + r, 10000000)

\* generateCityPrice(basePrice, cityId) with the Math.random() draw r:
\* randomVariation = 0.995 + r * 0.01
generateCityPrice(basePrice, cityId, r) ==
  LET variation == IF cityId \in DOMAIN cityVariations /\ cityVariations[cityId] # 0
                   THEN cityVariations[cityId] ELSE 1000
      randomVariation == 9950 + r
  IN  MathRound(basePrice * variation, randomVariation, 10000000)

\* the bundle initializePrices() builds for the i-th city; the seven draws are
\* taken in evaluation order from draw k on
initialBundle(base, i, seed, k, time) ==
  LET city == METRO_CITIES[i]
  IN  [ cityInfo    |-> city,
        gold        |-> ( "24k" :> generateCityPrice(base.gold["24k"], city.id, Random(seed, k)) @@
                          "22k" :> generateCityPrice(base.gold["22k"], city.id, Random(seed, k + 1)) @@
                          "18k" :> generateCityPrice(base.gold["18k"], city.id, Random(seed, k + 2)) ),
        silver      |-> ( "999" :> generateCityPrice(base.silver["999"], city.id, Random(seed, k + 3)) @@
                          "925" :> generateCityPrice(base.silver["925"], city.id, Random(seed, k + 4)) ),
        lastUpdated |-> time,
        trend       |-> [ gold   |-> getRandomTrend(Random(seed, k + 5)),
                          silver |-> getRandomTrend(Random(seed, k + 6)) ] ]

\* initializePrices(): every configured city's entry is assigned a new bundle,
\* any other entry of the table stays
initializePrices(prices, base, seed, k0, time) ==
  [ cityId \in (DOMAIN prices) \cup CityIds |->
      IF cityId \in CityIds
      THEN initialBundle(base, CityIndex(cityId), seed, k0 + 7 * (CityIndex(cityId) - 1), time)
      ELSE prices[cityId] ]

\* the first city of METRO_CITIES that has no entry, NumCities + 1 if none:
\* there cityPrices is undefined and cityPrices.gold throws
firstMissing(prices) ==
  IF \A i \in 1..NumCities : METRO_CITIES[i].id \in DOMAIN prices
  THEN NumCities + 1
  ELSE CHOOSE i \in 1..NumCities :
         /\ METRO_CITIES[i].id \notin DOMAIN prices
         /\ \A j \in 1..(i - 1) : METRO_CITIES[j].id \in DOMAIN prices

\* the random walk step of one price: changePercent = (r - 0.5) * span,
\* span being 0.004 for gold and 0.006 for silver (span1000 = span * 1000)
walkPrice(currentPrice, r, span1000) ==
  MathRound(currentPrice, 100000 + (r - 50) * span1000, 100000)

\* the body of METRO_CITIES.forEach in updatePricesSimulated for one city
simulatedBundle(cityPrices, seed, k, time) ==
  [ cityPrices EXCEPT
      !.gold = [ karat \in DOMAIN cityPrices.gold |->
                   walkPrice(cityPrices.gold[karat],
                             Random(seed, k + (CHOOSE j \in 1..3 : GoldKeys[j] = karat) - 1), 4) ],
      !.silver = [ purity \in DOMAIN cityPrices.silver |->
                   walkPrice(cityPrices.silver[purity],
                             Random(seed, k + 3 + (CHOOSE j \in 1..2 : SilverKeys[j] = purity) - 1), 6) ],
      !.trend = [ gold   |-> getRandomTrend(Random(seed, k + 5)),
                  silver |-> getRandomTrend(Random(seed, k + 6)) ],
      !.lastUpdated = time ]

\* an updatePricesSimulated() that recomputes every bundle from the base
\* table, as initializePrices() does, instead of walking the stored prices
updatePricesSimulated_FromBase(prices, seed, k0, time) ==
  [ threw  |-> firstMissing(prices) <= NumCities,
    prices |-> IF firstMissing(prices) <= NumCities THEN prices
               ELSE initializePrices(prices, InitialBasePrices, seed, k0, time) ]

\* an updatePricesSimulated() that is cut short after the first city: only
\* that city's bundle is walked before the table is emitted
updatePricesSimulated_FirstCityOnly(prices, seed, k0, time) ==
  [ threw  |-> firstMissing(prices) <= NumCities,
    prices |-> [ cityId \in DOMAIN prices |->
                   IF cityId \in CityIds /\ CityIndex(cityId) = 1 /\ firstMissing(prices) > 1
                   THEN simulatedBundle(prices[cityId], seed, k0, time)
                   ELSE prices[cityId] ] ]

\* updatePricesSimulated(): the table after the loop and whether the loop threw
\* (the cities before the first missing one are already mutated then); the
\* priceUpdate is emitted only when it did not throw
updatePricesSimulated(prices, seed, k0, time) ==
  LET stop == firstMissing(prices)
  IN  [ threw  |-> stop <= NumCities,
        prices |-> [ cityId \in DOMAIN prices |->
                       IF cityId \in CityIds /\ CityIndex(cityId) < stop
                       THEN simulatedBundle(prices[cityId], seed,
                                            k0 + 7 * (CityIndex(cityId) - 1), time)
                       ELSE prices[cityId] ] ]

\* a regime shift whose shock reaches the gold entries only
shiftBasePrices_GoldOnly(base, r) ==
  [ gold   |-> [ karat \in DOMAIN base.gold |->
                   MathRound(base.gold[karat], 10000 + (r - 50) * 2, 10000) ],
    silver |-> base.silver ]

\* the regime shift's new BASE_PRICES: marketChange = (r - 0.5) * 0.02
shiftBasePrices(base, r) ==
  [ gold   |-> [ karat \in DOMAIN base.gold |->
                   MathRound(base.gold[karat], 10000 + (r - 50) * 2, 10000) ],
    silver |-> [ purity \in DOMAIN base.silver |->
                   MathRound(base.silver[purity], 10000 + (r - 50) * 2, 10000) ] ]

\* -------------------------------------------------- upstream responses
Ok(d) == [kind |-> "ok", d |-> d]
JsArray(items) == [t |-> "array", items |-> items]
Item(symbol, ltp, changePercent) ==
  [t |-> "object", Symbol |-> symbol, LTP |-> ltp, ChangePercent |-> changePercent]

\* what one POST to the MCX endpoint can end in: axios rejecting (timeout,
\* transport error, non-2xx status) or a 2xx response whose data.d is missing,
\* is not JSON, or parses to the given JSON value
Responses ==
  { [kind |-> "timeout"], [kind |-> "network"], [kind |-> "status"],
    Ok(Undefined), Ok([t |-> "badjson"]), Ok([t |-> "object"]),
    Ok(JsArray(<< >>)),
    Ok(JsArray(<< JsNull >>)),
    Ok(JsArray(<< Item(Undefined, Str("105350"), Str("0.45")) >>)),
    Ok(JsArray(<< Item(Num(5000), Str("105350"), Str("0.45")) >>)),
    Ok(JsArray(<< Item(Str("COPPER"), Str("105350"), Str("0.45")) >>)),
    Ok(JsArray(<< Item(Str("GOLD"), Str("105350"), Str("0.45")),
                  Item(Str("SILVER"), Str("124100.5"), Str("-0.25")) >>)),
    Ok(JsArray(<< Item(Str("gold"), Str("abc"), Undefined) >>)),
    Ok(JsArray(<< Item(Str("GOLD"), Str("-5"), Str("-0.25")),
                  Item(Str("Silver"), Str("0.3"), Str("0.1")) >>)) }

\* ------------------------------------------------------------- state
VARIABLES
  currentPrices,   \* let currentPrices: city id -> bundle
  BASE_PRICES,     \* the base table, changed by the regime shift
  useMCXData,      \* let useMCXData
  initPc,          \* initializeApp(): "awaiting" its fetch, or "done"
  fetches,         \* the fast ticks awaiting fetchLiveData(), by their start time
  timers,          \* pending setTimeout callbacks, in the order they were set
  crashed,         \* a rejection of updatePrices() went unhandled (Node 16: exit)
  now,             \* the clock new Date() reads; it advances with the cron firings
  lastPublished,   \* the table of the last io.emit('priceUpdate', ..), if any
  sockets,         \* the ids of the connected sockets
  rooms,           \* the rooms each connected socket joined by 'subscribe'
  outbox,          \* the socket emissions of this step's handler, each with the
                   \* set of sockets it is delivered to
  emits,           \* the number of io.emit('priceUpdate', ..) calls of this step
  tickEnded,       \* the updatePrices() of a fast tick ended in this step
  fetched,         \* the fetchLiveData() that settled in this step, if any,
                   \* and when it was started
  httpResponse     \* the HTTP response the handler of this step sent

\* the browser client (class PreciousMetalsApp)
VARIABLES
  allPrices,       \* this.allPrices
  previousPrices,  \* this.previousPrices
  filteredData,    \* this.filteredData
  retryCount,      \* this.retryCount
  chartData,       \* this.chartData: per commodity, timestamps and prices
  clientSockets,   \* the sockets io() created, in order, each with its status;
                   \* this.socket is the last one
  reconnectTimers, \* pending setTimeout callbacks of handleReconnection()
  toasts,          \* the showToast() calls of this step's handler, in order
  incoming,        \* the socket event or chart button click this step's handler
                   \* received, if any
  handled,         \* snapshots (initialData, priceUpdate) handled so far
  attempts,        \* connection attempts started without a user action since
                   \* the last successful connect
  chartHistory,    \* every point ever pushed to chartData, per commodity
  filterState,     \* the values of #cityFilter, #metalFilter and #searchInput
  priceGrid,       \* the city cards #priceGrid holds, by city id
  charts           \* this.charts: the labels and data each chart displays

\* MCXApi.parseMCXData() taken alone
VARIABLES
  mcxPayload,      \* the JSON value parseMCXData() is called with next
  mcxParsed        \* what the last parseMCXData() call returned or threw

serverVars == << currentPrices, BASE_PRICES, useMCXData, initPc, fetches, timers,
                 crashed, now, lastPublished, sockets, rooms, outbox, emits,
                 tickEnded, fetched, httpResponse >>

\* the page: filter inputs, price grid and charts
viewVars == << filterState, priceGrid, charts >>

clientVars == << allPrices, previousPrices, filteredData, retryCount, chartData,
                 clientSockets, reconnectTimers, toasts, incoming, handled,
                 attempts, chartHistory, viewVars >>

parserVars == << mcxPayload, mcxParsed >>

vars == << serverVars, clientVars, parserVars >>

\* the module's top level has run: initializeApp() is suspended at its await,
\* the routes are mounted and the server listens
ServerInit ==
  /\ currentPrices = << >>
  /\ BASE_PRICES = InitialBasePrices
  /\ useMCXData = TRUE
  /\ initPc = "awaiting"
  /\ fetches = {}
  /\ timers = << >>
  /\ crashed = FALSE
  /\ now = 0
  /\ lastPublished = Undefined
  /\ sockets = {}
  /\ rooms = << >>
  /\ outbox = {}
  /\ emits = 0
  /\ tickEnded = FALSE
  /\ fetched = Undefined
  /\ httpResponse = Undefined

\* the step's handler sent nothing and was not the end of a fast tick
NoOutput ==
  /\ outbox' = {}
  /\ emits' = 0
  /\ tickEnded' = FALSE
  /\ fetched' = Undefined
  /\ httpResponse' = Undefined

\* a changed emitPriceUpdate: the update goes to the room of a city, as
\* io.to('mumbai').emit(..) would send it, and so only to the sockets that
\* subscribed to it
emitPriceUpdate_ToRoom(socks, prices) ==
  { [ to    |-> { id \in socks : "mumbai" \in rooms[id] },
      event |-> "priceUpdate",
      data  |-> prices ] }

\* io.emit('priceUpdate', prices): one emission, delivered to every connected
\* socket whatever rooms it joined
emitPriceUpdate(socks, prices) ==
  { [to |-> socks, event |-> "priceUpdate", data |-> prices] }

\* updatePricesSimulated() throws (a TypeError at the first city of
\* METRO_CITIES that has no entry) without having emitted
simulatedThrows(prices) == firstMissing(prices) <= NumCities

\* the table after updatePricesSimulated() followed, when that throws, by the
\* second updatePricesSimulated() of the catch block of updatePrices(); the
\* second call meets the same missing entry and throws as well
simulateWithCatch(prices, seed, time) ==
  LET first == updatePricesSimulated(prices, seed, 0, time).prices
  IN  IF simulatedThrows(prices)
      THEN updatePricesSimulated(first, seed, 7 * (firstMissing(prices) - 1), time).prices
      ELSE first

\* how an awaited fetchLiveData() can settle at the given time: whether its
\* request failed, and the value it resolves to
FetchOutcomes(time) ==
  { [ failed  |-> fetchError(response),
      mcxData |-> fetchLiveData(response, seed, time) ] :
    response \in Responses, seed \in Seeds }

\* FetchOutcomes tabulated by the clock value, so that it is computed once
FetchOutcomesAt == [time \in 0..MaxTime |-> FetchOutcomes(time)]

\* convertToLocationPrices(outcome.mcxData, METRO_CITIES, time) of every outcome
\* that carries a quote, tabulated likewise
LocationPricesAt ==
  [time \in 0..MaxTime |->
    [outcome \in { o \in FetchOutcomes(time) : hasQuote(o.mcxData) } |->
       convertToLocationPrices(outcome.mcxData, METRO_CITIES, time)]]

\* the fetchLiveData() call that settles, with the time at which it was
\* started (0 for the call of initializeApp(), the tick's time otherwise)
settledFetch(outcome, tick) ==
  [ failed |-> outcome.failed, mcxData |-> outcome.mcxData, tick |-> tick ]

\* initializeApp() resumes with the outcome of its fetchLiveData()
InitComplete ==
  /\ ~crashed
  /\ UNCHANGED << clientVars, parserVars >>
  /\ initPc = "awaiting"
  /\ \E outcome \in FetchOutcomesAt[now] :
       /\ fetched' = settledFetch(outcome, 0)
       /\ IF hasQuote(outcome.mcxData)
          THEN /\ currentPrices' = LocationPricesAt[now][outcome]
               /\ UNCHANGED useMCXData
          ELSE /\ useMCXData' = FALSE
               /\ \E seed \in Seeds :
                    currentPrices' =
                      initializePrices(currentPrices, BASE_PRICES, seed, 0, now)
  /\ initPc' = "done"
  /\ outbox' = {}
  /\ emits' = 0
  /\ tickEnded' = FALSE
  /\ httpResponse' = Undefined
  /\ UNCHANGED << BASE_PRICES, fetches, timers, crashed, now, lastPublished, sockets, rooms >>

\* the tail of a fast tick that ends in updatePricesSimulated(): the table is
\* walked and emitted, or the TypeError escapes updatePrices()
SimulatedTail(seed, time) ==
  /\ currentPrices' = simulateWithCatch(currentPrices, seed, time)
  /\ crashed' = simulatedThrows(currentPrices)
  /\ IF simulatedThrows(currentPrices)
     THEN /\ outbox' = {}
          /\ emits' = 0
          /\ UNCHANGED lastPublished
     ELSE /\ lastPublished' = currentPrices'
          /\ emits' = 1
          /\ outbox' = emitPriceUpdate(sockets, currentPrices')

\* cron '*/10 * * * * *': updatePrices() up to its await (live source enabled)
\* or to its end (live source disabled)
FastTick ==
  /\ ~crashed
  /\ UNCHANGED << clientVars, parserVars >>
  /\ now < MaxTime
  /\ now' = now + 1
  /\ IF useMCXData
     THEN /\ fetches' = fetches \cup { now' }
          /\ outbox' = {}
          /\ emits' = 0
          /\ tickEnded' = FALSE
          /\ UNCHANGED << currentPrices, crashed, lastPublished >>
     ELSE /\ \E seed \in Seeds : SimulatedTail(seed, now')
          /\ tickEnded' = TRUE
          /\ UNCHANGED fetches
  /\ fetched' = Undefined
  /\ httpResponse' = Undefined
  /\ UNCHANGED << BASE_PRICES, useMCXData, initPc, timers, sockets, rooms >>

\* updatePricesFromMCX() of a fast tick resumes with the outcome of its
\* fetchLiveData(), and updatePrices() runs to its end
TickFetchComplete ==
  /\ ~crashed
  /\ UNCHANGED << clientVars, parserVars >>
  /\ \E id \in fetches, outcome \in FetchOutcomesAt[now] :
       /\ fetches' = fetches \ { id }
       /\ fetched' = settledFetch(outcome, id)
       /\ IF hasQuote(outcome.mcxData)
          THEN /\ currentPrices' = LocationPricesAt[now][outcome]
               /\ lastPublished' = currentPrices'
               /\ emits' = 1
               /\ outbox' = emitPriceUpdate(sockets, currentPrices')
               /\ UNCHANGED << useMCXData, timers, crashed >>
          ELSE /\ useMCXData' = FALSE
               /\ \E seed \in Seeds : SimulatedTail(seed, now)
               /\ timers' = IF simulatedThrows(currentPrices) THEN timers
                            ELSE Append(timers, [tick |-> id, inflight |-> fetches \ { id }])
  /\ tickEnded' = TRUE
  /\ httpResponse' = Undefined
  /\ UNCHANGED << BASE_PRICES, initPc, now, sockets, rooms >>

\* the setTimeout callback of updatePricesFromMCX's catch block
ReEnableTimer ==
  /\ ~crashed
  /\ UNCHANGED << clientVars, parserVars >>
  /\ timers # << >>
  /\ Head(timers).inflight \cap fetches = {}
  /\ useMCXData' = TRUE
  /\ timers' = Tail(timers)
  /\ NoOutput
  /\ UNCHANGED << currentPrices, BASE_PRICES, initPc, fetches, crashed, now,
                  lastPublished, sockets, rooms >>

\* cron '*/5 * * * *': the regime shift
RegimeShift ==
  /\ ~crashed
  /\ UNCHANGED << clientVars, parserVars >>
  /\ now < MaxTime
  /\ now' = now + 1
  /\ \E seed \in Seeds :
       /\ BASE_PRICES' = shiftBasePrices(BASE_PRICES, Random(seed, 0))
       /\ currentPrices' = initializePrices(currentPrices, BASE_PRICES', seed, 1, now')
  /\ NoOutput
  /\ UNCHANGED << useMCXData, initPc, fetches, timers, crashed, lastPublished, sockets, rooms >>

\* the ids a socket can have
SocketIds == 1..MaxSockets

\* a changed Connect: initialData is sent with io.emit, to every connected
\* socket, instead of socket.emit
Connect_Broadcast ==
  /\ ~crashed
  /\ UNCHANGED << clientVars, parserVars >>
  /\ \E id \in SocketIds \ sockets :
       /\ sockets' = sockets \cup { id }
       /\ rooms' = (id :> {}) @@ rooms
       /\ outbox' = { [ to    |-> sockets',
                        event |-> "initialData",
                        data  |-> [cities |-> METRO_CITIES, prices |-> currentPrices] ] }
  /\ emits' = 0
  /\ tickEnded' = FALSE
  /\ fetched' = Undefined
  /\ httpResponse' = Undefined
  /\ UNCHANGED << currentPrices, BASE_PRICES, useMCXData, initPc, fetches, timers,
                  crashed, now, lastPublished >>

\* io.on('connection'): the new socket is sent initialData
Connect ==
  /\ ~crashed
  /\ UNCHANGED << clientVars, parserVars >>
  /\ \E id \in SocketIds \ sockets :
       /\ sockets' = sockets \cup { id }
       /\ rooms' = (id :> {}) @@ rooms
       /\ outbox' = { [ to    |-> { id },
                        event |-> "initialData",
                        data  |-> [cities |-> METRO_CITIES, prices |-> currentPrices] ] }
  /\ emits' = 0
  /\ tickEnded' = FALSE
  /\ fetched' = Undefined
  /\ httpResponse' = Undefined
  /\ UNCHANGED << currentPrices, BASE_PRICES, useMCXData, initPc, fetches, timers,
                  crashed, now, lastPublished >>

\* socket.on('disconnect')
Disconnect ==
  /\ ~crashed
  /\ UNCHANGED << clientVars, parserVars >>
  /\ \E id \in sockets :
       /\ sockets' = sockets \ { id }
       /\ rooms' = [j \in sockets \ { id } |-> rooms[j]]
  /\ outbox' = {}
  /\ emits' = 0
  /\ tickEnded' = FALSE
  /\ fetched' = Undefined
  /\ httpResponse' = Undefined
  /\ UNCHANGED << currentPrices, BASE_PRICES, useMCXData, initPc, fetches, timers,
                  crashed, now, lastPublished >>

\* the cityIds a client sends with 'subscribe'
SubscribeInputs == { { "mumbai" } }

\* socket.on('subscribe'): socket.join(cityIds)
Subscribe ==
  /\ ~crashed
  /\ UNCHANGED << clientVars, parserVars >>
  /\ \E id \in sockets, cityIds \in SubscribeInputs :
       rooms' = [rooms EXCEPT ![id] = @ \cup cityIds]
  /\ outbox' = {}
  /\ emits' = 0
  /\ tickEnded' = FALSE
  /\ fetched' = Undefined
  /\ httpResponse' = Undefined
  /\ UNCHANGED << currentPrices, BASE_PRICES, useMCXData, initPc, fetches, timers,
                  crashed, now, lastPublished, sockets >>

\* a client emits 'requestUpdate': the connection handler registers listeners
\* for 'subscribe' and 'disconnect' only, so the event is dropped
RequestUpdate ==
  /\ ~crashed
  /\ UNCHANGED << clientVars, parserVars >>
  /\ sockets # {}
  /\ outbox' = {}
  /\ emits' = 0
  /\ tickEnded' = FALSE
  /\ fetched' = Undefined
  /\ httpResponse' = Undefined
  /\ UNCHANGED << currentPrices, BASE_PRICES, useMCXData, initPc, fetches, timers,
                  crashed, now, lastPublished, sockets, rooms >>

\* city ids HTTP clients ask for: a configured one, an unknown one, and the
\* name of a property every plain object inherits
RequestIds == { "mumbai", "unknowncity", "constructor" }

\* the property names a plain object ({}) inherits from Object.prototype
ObjectPrototypeKeys ==
  { "constructor", "toString", "valueOf", "hasOwnProperty", "isPrototypeOf",
    "propertyIsEnumerable", "toLocaleString", "__proto__" }

\* the function Object, as currentPrices.constructor yields it
ObjectFunction == [t |-> "function", name |-> "Object"]

\* currentPrices[cityId] on the plain object currentPrices: the own property,
\* else the inherited one (of which this model reads "constructor" only),
\* else undefined
getProperty(prices, cityId) ==
  IF cityId \in DOMAIN prices THEN prices[cityId]
  ELSE IF cityId \in ObjectPrototypeKeys THEN ObjectFunction
  ELSE Undefined

\* if (currentPrices[cityId]): own bundles and inherited functions are
\* objects, hence truthy; undefined is not
truthyProperty(prices, cityId) ==
  cityId \in DOMAIN prices \/ cityId \in ObjectPrototypeKeys

\* res.json(value): JSON.stringify of a function is undefined, and the
\* response is then sent with an empty body
jsonBody(value) ==
  IF value = ObjectFunction THEN Undefined ELSE value

\* an HTTP read handler changes nothing but the response it sends
ReadOnly ==
  /\ UNCHANGED << clientVars, parserVars >>
  /\ outbox' = {}
  /\ emits' = 0
  /\ tickEnded' = FALSE
  /\ fetched' = Undefined
  /\ UNCHANGED << currentPrices, BASE_PRICES, useMCXData, initPc, fetches, timers,
                  crashed, now, lastPublished, sockets, rooms >>

\* app.get('/api/prices')
GetPrices ==
  /\ ~crashed
  /\ httpResponse' = [route |-> "/api/prices", status |-> 200, body |-> currentPrices]
  /\ ReadOnly

\* app.get('/api/prices/:cityId')
GetPriceByCity ==
  /\ ~crashed
  /\ \E cityId \in RequestIds :
       httpResponse' =
         IF truthyProperty(currentPrices, cityId)
         THEN [route |-> "/api/prices/:cityId", cityId |-> cityId, status |-> 200,
               body |-> jsonBody(getProperty(currentPrices, cityId))]
         ELSE [route |-> "/api/prices/:cityId", cityId |-> cityId, status |-> 404,
               body |-> [error |-> "City not found"]]
  /\ ReadOnly

\* app.get('/api/status')
GetStatus ==
  /\ ~crashed
  /\ httpResponse' =
       [route |-> "/api/status", status |-> 200,
        body |-> [ dataSource   |-> IF useMCXData THEN "MCX (Multi Commodity Exchange)"
                                    ELSE "Simulated Data",
                   mcxEnabled   |-> useMCXData,
                   lastUpdate   |-> now,
                   citiesCount  |-> NumCities,
                   apiStatus    |-> "operational" ]]
  /\ ReadOnly

\* ------------------------------------------------- client (PreciousMetalsApp)
\* this.maxRetries
maxRetries == 5
\* chartData.gold.maxPoints and chartData.silver.maxPoints
maxPoints == 60

\* a price table as the server sends it: one bundle per configured city, the
\* 24 carat gold and 999 silver prices given per city, the other purities in
\* the server's proportions
sampleTable(gold24k, silver999, time) ==
  [ cityId \in CityIds |->
      [ cityInfo    |-> METRO_CITIES[CityIndex(cityId)],
        gold        |-> ( "24k" :> gold24k[cityId] @@
                          "22k" :> MathRound(gold24k[cityId], 916, 1000) @@
                          "18k" :> MathRound(gold24k[cityId], 750, 1000) ),
        silver      |-> ( "999" :> silver999[cityId] @@
                          "925" :> MathRound(silver999[cityId], 925, 1000) ),
        lastUpdated |-> time,
        trend       |-> [ gold |-> "stable", silver |-> "stable" ] ] ]

\* mumbai 107610 / 126895, delhi 107200 / 126400, every other city 100000 / 120000
SnapshotA ==
  sampleTable([c \in CityIds |-> IF c = "mumbai" THEN 107610
                                 ELSE IF c = "delhi" THEN 107200 ELSE 100000],
              [c \in CityIds |-> IF c = "mumbai" THEN 126895
                                 ELSE IF c = "delhi" THEN 126400 ELSE 120000], 1)

\* against SnapshotA: mumbai gold +0.83 %, delhi gold +0.5 % exactly, mumbai
\* silver -0.40 %, delhi silver -0.55 %, every other city unchanged
SnapshotB ==
  sampleTable([c \in CityIds |-> IF c = "mumbai" THEN 108500
                                 ELSE IF c = "delhi" THEN 107736 ELSE 100000],
              [c \in CityIds |-> IF c = "mumbai" THEN 126383
                                 ELSE IF c = "delhi" THEN 125700 ELSE 120000], 2)

\* the table the server stores for an upstream quote of GOLD -5, SILVER 0.3
SnapshotN ==
  sampleTable([c \in CityIds |-> -5], [c \in CityIds |-> 0], 2)

\* the tables a snapshot can carry; << >> is the store before initializeApp()
\* has filled it
Snapshots == { << >>, SnapshotA, SnapshotB, SnapshotN }

\* JSON.parse(JSON.stringify(prices)) of a price table: every value of a table
\* is a string, a finite number or a plain object of these, which the round
\* trip rebuilds key by key
jsonNumber(n) == n
jsonBundle(bundle) ==
  [ k \in DOMAIN bundle |->
      IF k \in { "gold", "silver" }
      THEN [ purity \in DOMAIN bundle[k] |-> jsonNumber(bundle[k][purity]) ]
      ELSE bundle[k] ]
jsonRoundTrip(prices) == [ cityId \in DOMAIN prices |-> jsonBundle(prices[cityId]) ]

\* Object.keys(prices) of a price table: the cities in the order the server
\* inserted them
ObjectKeys(prices) ==
  SelectSeq([ i \in 1..NumCities |-> METRO_CITIES[i].id ],
            LAMBDA cityId : cityId \in DOMAIN prices)

\* renderMetalSection(): change = price - (previousPrices[purity] || price),
\* for every purity of one metal of one city
metalChanges(prices, previous) ==
  [ purity \in DOMAIN prices |->
      LET price == prices[purity]
          previousPrice == IF purity \in DOMAIN previous /\ previous[purity] # 0
                           THEN previous[purity] ELSE price
      IN  price - previousPrice ]

\* createCityCard(): previousCityData = this.previousPrices[cityData.cityInfo.id],
\* its metals or {} passed to renderMetalSection
cityChanges(cityData, previous) ==
  LET id == cityData.cityInfo.id
  IN  [ gold   |-> metalChanges(cityData.gold,
                                IF id \in DOMAIN previous THEN previous[id].gold ELSE << >>),
        silver |-> metalChanges(cityData.silver,
                                IF id \in DOMAIN previous THEN previous[id].silver ELSE << >>) ]

\* renderPriceGrid(): the changes shown for the table it renders
dataToRender(filtered, all) == IF DOMAIN filtered # {} THEN filtered ELSE all
renderPriceGrid(filtered, all, previous) ==
  [ cityId \in DOMAIN dataToRender(filtered, all) |->
      cityChanges(dataToRender(filtered, all)[cityId], previous) ]

\* Math.abs(current - previous) / previous > 0.005, exactly: the quotient is
\* negative (or -0) for a negative previous price, Infinity or NaN for 0
exceedsThreshold(current, previous) ==
  LET diff == IF current >= previous THEN current - previous ELSE previous - current
  IN  IF previous > 0 THEN diff * 1000 > 5 * previous
      ELSE IF previous = 0 THEN diff > 0
      ELSE FALSE

significantToast(metal, current, previous, cityInfo) ==
  [ message   |-> "significant",
    metal     |-> metal,
    direction |-> IF current > previous THEN "increased" ELSE "decreased",
    city      |-> cityInfo.name ]

\* the toasts of one city in checkSignificantChanges(): gold 24k, then silver 999
cityToasts(current, previous) ==
  (IF exceedsThreshold(current.gold["24k"], previous.gold["24k"])
   THEN << significantToast("Gold", current.gold["24k"], previous.gold["24k"],
                            current.cityInfo) >>
   ELSE << >>)
  \o
  (IF exceedsThreshold(current.silver["999"], previous.silver["999"])
   THEN << significantToast("Silver", current.silver["999"], previous.silver["999"],
                            current.cityInfo) >>
   ELSE << >>)

\* checkSignificantChanges(): Object.keys(allPrices).forEach, a city without
\* previous data is skipped
RECURSIVE toastsFrom(_, _, _)
toastsFrom(keys, all, previous) ==
  IF keys = << >> THEN << >>
  ELSE (IF Head(keys) \in DOMAIN previous
        THEN cityToasts(all[Head(keys)], previous[Head(keys)])
        ELSE << >>)
       \o toastsFrom(Tail(keys), all, previous)

checkSignificantChanges(all, previous) == toastsFrom(ObjectKeys(all), all, previous)

\* the sum of one price over the cities of a table
RECURSIVE sumOver(_, _, _, _)
sumOver(keys, all, metal, purity) ==
  IF keys = << >> THEN 0
  ELSE all[Head(keys)][metal][purity] + sumOver(Tail(keys), all, metal, purity)

\* Math.round(sum / n) for n > 0
averageOf(all, metal, purity) ==
  LET n == Len(ObjectKeys(all))
      sum == sumOver(ObjectKeys(all), all, metal, purity)
  IN  (2 * sum + n) \div (2 * n)

\* push one point, then shift() once if the series is longer than maxPoints
pushPoint_NoShift(series, label, price) ==
  [ timestamps |-> Append(series.timestamps, label),
    prices     |-> Append(series.prices, price) ]

pushPoint(series, label, price) ==
  LET pushed == [ timestamps |-> Append(series.timestamps, label),
                  prices     |-> Append(series.prices, price) ]
  IN  IF Len(pushed.timestamps) > maxPoints
      THEN [ timestamps |-> Tail(pushed.timestamps), prices |-> Tail(pushed.prices) ]
      ELSE pushed

\* updateChartData() at the time label `label`
updateChartData(chart, all, label) ==
  IF DOMAIN all = {} THEN chart
  ELSE [ gold   |-> pushPoint(chart.gold, label, averageOf(all, "gold", "24k")),
         silver |-> pushPoint(chart.silver, label, averageOf(all, "silver", "999")) ]

\* the points updateChartData() pushed, appended to the record of all pushes
recordPush(history, all, label) ==
  IF DOMAIN all = {} THEN history
  ELSE [ gold   |-> Append(history.gold, << label, averageOf(all, "gold", "24k") >>),
         silver |-> Append(history.silver, << label, averageOf(all, "silver", "999") >>) ]

\* the class of the change indicator of one price row
changeClass(change) ==
  IF change > 0 THEN "positive" ELSE IF change < 0 THEN "negative" ELSE "neutral"

\* renderMetalSection() for a metal that is shown: one row per purity with
\* previousPrice = previous[purity] || price and change = price - previousPrice
renderMetalSection(prices, previous) ==
  [ purity \in DOMAIN prices |->
      [ price       |-> prices[purity],
        change      |-> metalChanges(prices, previous)[purity],
        changeClass |-> changeClass(metalChanges(prices, previous)[purity]) ] ]

\* createCityCard(cityData, metalFilter): the sections of the metals the
\* metal filter lets through, each against previousPrices[cityInfo.id]
createCityCard(cityData, previous, metalFilter) ==
  LET id == cityData.cityInfo.id
      before(metal) == IF id \in DOMAIN previous THEN previous[id][metal] ELSE << >>
  IN  [ cityInfo    |-> cityData.cityInfo,
        lastUpdated |-> cityData.lastUpdated,
        sections    |-> [ metal \in { m \in { "gold", "silver" } :
                                        metalFilter = "" \/ metalFilter = m } |->
                            renderMetalSection(cityData[metal], before(metal)) ] ]

\* renderPriceGrid(metalFilter): the cards the grid holds afterwards
priceGridCards(filtered, all, previous, metalFilter) ==
  [ cityId \in DOMAIN dataToRender(filtered, all) |->
      createCityCard(dataToRender(filtered, all)[cityId], previous, metalFilter) ]

\* the filter values a user picks or types
CityFilters == { "", "mumbai" }
MetalFilters == { "", "gold" }
SearchTerms == { "", "delhi", "zzz" }

\* text.toLowerCase().includes(term) for the search terms above and the names
\* and states of METRO_CITIES
lowerCaseIncludes(text, term) ==
  CASE term = ""      -> TRUE
    [] term = "delhi" -> text = "Delhi"
    [] OTHER          -> FALSE

\* the city passes the city filter and the search filter of applyFilters()
passesFilters(cityId, cityData, cityFilter, searchTerm) ==
  /\ cityFilter = "" \/ cityId = cityFilter
  /\ \/ searchTerm = ""
     \/ lowerCaseIncludes(cityData.cityInfo.name, searchTerm)
     \/ lowerCaseIncludes(cityData.cityInfo.state, searchTerm)

\* the filteredData applyFilters() builds
applyFilters(all, cityFilter, searchTerm) ==
  [ cityId \in { c \in DOMAIN all : passesFilters(c, all[c], cityFilter, searchTerm) } |->
      all[cityId] ]

\* updateChart(metalType): the chart displays copies of the series
updateChart(series) == [ labels |-> series.timestamps, data |-> series.prices ]

\* the points updateChartTimeframe() keeps for a timeframe
timeframePoints_Always60(timeframe) == 60

timeframePoints(timeframe) ==
  CASE timeframe = "1h"  -> 60
    [] timeframe = "6h"  -> 36
    [] timeframe = "24h" -> 24
    [] OTHER             -> 60

\* seq.slice(startIndex), startIndex counted from 0
sliceFrom(seq, startIndex) == SubSeq(seq, startIndex + 1, Len(seq))

\* updateChartTimeframe(): the tail of the series the chart displays
updateChartTimeframe(series, timeframe) ==
  LET len == Len(series.timestamps)
      startIndex == IF len - timeframePoints(timeframe) > 0
                    THEN len - timeframePoints(timeframe) ELSE 0
  IN  [ labels |-> sliceFrom(series.timestamps, startIndex),
        data   |-> sliceFrom(series.prices, startIndex) ]

EmptySeries == [ timestamps |-> << >>, prices |-> << >> ]

\* the constructor has run: init() has called initializeSocket(), the first
\* socket is connecting
ClientInit ==
  /\ allPrices = << >>
  /\ previousPrices = << >>
  /\ filteredData = << >>
  /\ retryCount = 0
  /\ chartData = [ gold |-> EmptySeries, silver |-> EmptySeries ]
  /\ clientSockets = << [ status |-> "connecting", greeted |-> FALSE ] >>
  /\ reconnectTimers = 0
  /\ toasts = << >>
  /\ incoming = Undefined
  /\ handled = 0
  /\ attempts = 0
  /\ chartHistory = [ gold |-> << >>, silver |-> << >> ]
  /\ filterState = [ city |-> "", metal |-> "", search |-> "" ]
  /\ priceGrid = << >>
  /\ charts = [ gold |-> updateChart(EmptySeries), silver |-> updateChart(EmptySeries) ]

\* no payload is being parsed
ParserIdle ==
  /\ mcxPayload = Undefined
  /\ mcxParsed = Undefined

Init == ServerInit /\ ClientInit /\ ParserIdle

ClientSocketIds == 1..Len(clientSockets)

\* nothing of the socket bookkeeping changes
SocketsUnchanged == UNCHANGED << retryCount, clientSockets, reconnectTimers, attempts >>

\* socket.on('initialData') that leaves this.previousPrices as it was
OnInitialData_KeepPrevious(i, prices) ==
  /\ i \in ClientSocketIds
  /\ clientSockets[i].status = "connected"
  /\ ~clientSockets[i].greeted
  /\ handled < MaxMessages
  /\ allPrices' = prices
  /\ clientSockets' = [clientSockets EXCEPT ![i].greeted = TRUE]
  /\ incoming' = [ event |-> "initialData", data |-> prices ]
  /\ handled' = handled + 1
  /\ toasts' = << >>
  /\ priceGrid' = priceGridCards(filteredData, allPrices', previousPrices, "")
  /\ UNCHANGED << previousPrices, filteredData, retryCount, chartData, reconnectTimers,
                  attempts, chartHistory, filterState, charts >>
  /\ UNCHANGED << serverVars, parserVars >>

\* socket.on('initialData'): the first event the server sends on a connection.
\* It stores the table and a copy of it and renders; it does not call
\* updateChartData()
OnInitialData(i, prices) ==
  /\ i \in ClientSocketIds
  /\ clientSockets[i].status = "connected"
  /\ ~clientSockets[i].greeted
  /\ handled < MaxMessages
  /\ allPrices' = prices
  /\ previousPrices' = jsonRoundTrip(prices)
  /\ clientSockets' = [clientSockets EXCEPT ![i].greeted = TRUE]
  /\ incoming' = [ event |-> "initialData", data |-> prices ]
  /\ handled' = handled + 1
  /\ toasts' = << >>
  /\ priceGrid' = priceGridCards(filteredData, allPrices', previousPrices', "")
  /\ UNCHANGED << filteredData, retryCount, chartData, reconnectTimers, attempts,
                  chartHistory, filterState, charts >>
  /\ UNCHANGED << serverVars, parserVars >>

\* handlePriceUpdate() that copies the new table instead of the old one
OnPriceUpdate_CopyNew(i, newPrices) ==
  /\ i \in ClientSocketIds
  /\ clientSockets[i].status = "connected"
  /\ clientSockets[i].greeted
  /\ handled < MaxMessages
  /\ previousPrices' = jsonRoundTrip(newPrices)
  /\ allPrices' = newPrices
  /\ chartData' = updateChartData(chartData, newPrices, handled + 1)
  /\ chartHistory' = recordPush(chartHistory, newPrices, handled + 1)
  /\ toasts' = checkSignificantChanges(newPrices, previousPrices')
  /\ incoming' = [ event |-> "priceUpdate", data |-> newPrices ]
  /\ handled' = handled + 1
  /\ priceGrid' = priceGridCards(filteredData, allPrices', previousPrices', "")
  /\ charts' = IF DOMAIN newPrices = {} THEN charts
               ELSE [ gold   |-> updateChart(chartData'.gold),
                      silver |-> updateChart(chartData'.silver) ]
  /\ UNCHANGED << filteredData, filterState >>
  /\ SocketsUnchanged
  /\ UNCHANGED << serverVars, parserVars >>

\* socket.on('priceUpdate') -> handlePriceUpdate(newPrices); the time label of
\* the chart point is the ordinal of the snapshot
OnPriceUpdate(i, newPrices) ==
  /\ i \in ClientSocketIds
  /\ clientSockets[i].status = "connected"
  /\ clientSockets[i].greeted
  /\ handled < MaxMessages
  /\ previousPrices' = jsonRoundTrip(allPrices)
  /\ allPrices' = newPrices
  /\ chartData' = updateChartData(chartData, newPrices, handled + 1)
  /\ chartHistory' = recordPush(chartHistory, newPrices, handled + 1)
  /\ toasts' = checkSignificantChanges(newPrices, previousPrices')
  /\ incoming' = [ event |-> "priceUpdate", data |-> newPrices ]
  /\ handled' = handled + 1
  /\ priceGrid' = priceGridCards(filteredData, allPrices', previousPrices', "")
  /\ charts' = IF DOMAIN newPrices = {} THEN charts
               ELSE [ gold   |-> updateChart(chartData'.gold),
                      silver |-> updateChart(chartData'.silver) ]
  /\ UNCHANGED << filteredData, filterState >>
  /\ SocketsUnchanged
  /\ UNCHANGED << serverVars, parserVars >>

\* a change of #cityFilter or #metalFilter or an input of #searchInput leaves
\* the three inputs with the given values and runs applyFilters():
\* filteredData is rebuilt from allPrices and the grid is rendered
ApplyFilters(cityFilter, metalFilter, searchTerm) ==
  /\ filterState' = [ city |-> cityFilter, metal |-> metalFilter, search |-> searchTerm ]
  /\ filterState' # filterState
  /\ filteredData' = applyFilters(allPrices, cityFilter, searchTerm)
  /\ priceGrid' = priceGridCards(filteredData', allPrices, previousPrices, metalFilter)
  /\ toasts' = << >>
  /\ incoming' = Undefined
  /\ UNCHANGED << allPrices, previousPrices, chartData, handled, chartHistory, charts >>
  /\ SocketsUnchanged
  /\ UNCHANGED << serverVars, parserVars >>

\* socket.on('connect')
ClientConnect(i) ==
  /\ i \in ClientSocketIds
  /\ clientSockets[i].status = "connecting"
  /\ clientSockets' = [clientSockets EXCEPT ![i] = [ status |-> "connected", greeted |-> FALSE ]]
  /\ retryCount' = 0
  /\ attempts' = 0
  /\ toasts' = << [ message |-> "Connected to live data feed" ] >>
  /\ incoming' = [ event |-> "connect" ]
  /\ UNCHANGED << allPrices, previousPrices, filteredData, chartData, reconnectTimers,
                  handled, chartHistory, viewVars >>
  /\ UNCHANGED << serverVars, parserVars >>

\* socket.on('connect_error'): the attempt failed; the handler shows a toast
\* and the socket's manager (io() with default options: reconnection on,
\* reconnectionAttempts Infinity) starts the next attempt
ClientConnectError(i) ==
  /\ i \in ClientSocketIds
  /\ clientSockets[i].status = "connecting"
  /\ attempts < MaxAttempts
  /\ attempts' = attempts + 1
  /\ toasts' = << [ message |-> "Connection error. Retrying..." ] >>
  /\ incoming' = [ event |-> "connect_error" ]
  /\ UNCHANGED << allPrices, previousPrices, filteredData, retryCount, chartData,
                  clientSockets, reconnectTimers, handled, chartHistory, viewVars >>
  /\ UNCHANGED << serverVars, parserVars >>

\* socket.on('disconnect') -> handleReconnection(); the server never closes a
\* socket itself, so the transport was lost and the socket's manager starts
\* to reconnect on its own
ClientDisconnect(i) ==
  /\ i \in ClientSocketIds
  /\ clientSockets[i].status = "connected"
  /\ Len(clientSockets) + reconnectTimers < MaxClientSockets \/ retryCount >= maxRetries
  /\ clientSockets' = [clientSockets EXCEPT ![i] = [ status |-> "connecting", greeted |-> FALSE ]]
  /\ attempts' = attempts + 1
  /\ IF retryCount < maxRetries
     THEN /\ reconnectTimers' = reconnectTimers + 1
          /\ toasts' = << [ message |-> "Disconnected from server" ] >>
     ELSE /\ reconnectTimers' = reconnectTimers
          /\ toasts' = << [ message |-> "Disconnected from server" ],
                          [ message |-> "Unable to reconnect. Please refresh the page." ] >>
  /\ incoming' = [ event |-> "disconnect" ]
  /\ UNCHANGED << allPrices, previousPrices, filteredData, retryCount, chartData,
                  handled, chartHistory, viewVars >>
  /\ UNCHANGED << serverVars, parserVars >>

\* the setTimeout callback of handleReconnection(): retryCount++ and
\* initializeSocket(), which creates one more socket
ReconnectTimer ==
  /\ reconnectTimers > 0
  /\ attempts < MaxAttempts
  /\ reconnectTimers' = reconnectTimers - 1
  /\ retryCount' = retryCount + 1
  /\ clientSockets' = Append(clientSockets, [ status |-> "connecting", greeted |-> FALSE ])
  /\ attempts' = attempts + 1
  /\ toasts' = << >>
  /\ incoming' = Undefined
  /\ UNCHANGED << allPrices, previousPrices, filteredData, chartData, handled, chartHistory,
                  viewVars >>
  /\ UNCHANGED << serverVars, parserVars >>

\* the client alone: socket events, snapshots and the city filter
ClientNext ==
  \/ \E i \in ClientSocketIds : ClientConnect(i)
  \/ \E i \in ClientSocketIds : ClientConnectError(i)
  \/ \E i \in ClientSocketIds : ClientDisconnect(i)
  \/ ReconnectTimer
  \/ \E i \in ClientSocketIds, prices \in Snapshots : OnInitialData(i, prices)
  \/ \E i \in ClientSocketIds, prices \in Snapshots : OnPriceUpdate(i, prices)
  \/ \E cityFilter \in CityFilters : ApplyFilters(cityFilter, "", "")

ClientSpec == Init /\ [][ClientNext]_vars

\* chart lengths a session starts from: empty, one point short of the cap, full
ChartPrefills == { 0, maxPoints - 1, maxPoints }

\* the table of the k-th of the updates that filled a chart: SnapshotA and
\* SnapshotB in turn
prefillTable(k) == IF k % 2 = 1 THEN SnapshotA ELSE SnapshotB

\* the chart after `len` updates, none of which was evicted; the labels count
\* back from the start of the session
prefillSeries(len, metal, purity) ==
  [ timestamps |-> [ k \in 1..len |-> k - len ],
    prices     |-> [ k \in 1..len |-> averageOf(prefillTable(k), metal, purity) ] ]

prefillHistory(len, metal, purity) ==
  [ k \in 1..len |-> << k - len, averageOf(prefillTable(k), metal, purity) >> ]

\* a client that is connected, has handled its initialData (SnapshotA) and
\* then `len` updates
ChartInit ==
  /\ ServerInit
  /\ \E len \in ChartPrefills :
       /\ allPrices = IF len = 0 THEN SnapshotA ELSE prefillTable(len)
       /\ previousPrices = IF len <= 1 THEN SnapshotA ELSE prefillTable(len - 1)
       /\ chartData = [ gold   |-> prefillSeries(len, "gold", "24k"),
                        silver |-> prefillSeries(len, "silver", "999") ]
       /\ chartHistory = [ gold   |-> prefillHistory(len, "gold", "24k"),
                           silver |-> prefillHistory(len, "silver", "999") ]
       /\ toasts = IF len = 0 THEN << >>
                   ELSE checkSignificantChanges(allPrices, previousPrices)
       /\ incoming = [ event |-> IF len = 0 THEN "initialData" ELSE "priceUpdate",
                       data  |-> allPrices ]
  /\ filteredData = << >>
  /\ filterState = [ city |-> "", metal |-> "", search |-> "" ]
  /\ priceGrid = priceGridCards(filteredData, allPrices, previousPrices, "")
  /\ charts = [ gold |-> updateChart(chartData.gold), silver |-> updateChart(chartData.silver) ]
  /\ ParserIdle
  /\ retryCount = 0
  /\ clientSockets = << [ status |-> "connected", greeted |-> TRUE ] >>
  /\ reconnectTimers = 0
  /\ handled = 0
  /\ attempts = 0

\* the timeframe buttons of a chart card
Timeframes == { "1h", "6h", "24h" }

\* a click on a .time-btn of the chart of metalType: updateChartTimeframe()
ClickTimeframe(metalType, timeframe) ==
  /\ charts' = [charts EXCEPT ![metalType] = updateChartTimeframe(chartData[metalType], timeframe)]
  /\ incoming' = [ event |-> "timeframe", metalType |-> metalType, timeframe |-> timeframe ]
  /\ toasts' = << >>
  /\ UNCHANGED << allPrices, previousPrices, filteredData, chartData, handled, chartHistory,
                  filterState, priceGrid >>
  /\ SocketsUnchanged
  /\ UNCHANGED << serverVars, parserVars >>

\* the updates and the timeframe clicks of a session whose connection stays up
ChartNext ==
  \/ \E i \in ClientSocketIds, prices \in Snapshots : OnPriceUpdate(i, prices)
  \/ \E metalType \in { "gold", "silver" }, timeframe \in Timeframes :
       ClickTimeframe(metalType, timeframe)

ChartSpec == ChartInit /\ [][ChartNext]_vars

\* the JSON values parseMCXData() is called with: the payloads of Responses
\* and records whose LTP is missing, of another type, or a string that is
\* not a number
Payloads ==
  { r.d : r \in { x \in Responses : x.kind = "ok" /\ Truthy(x.d) /\ x.d.t # "badjson" } }
  \cup
  { JsArray(<< Item(Str("GOLD"), ltp, Str("0.45")) >>) :
      ltp \in { Undefined, JsNull, [t |-> "object"], Str("abc"), Str("12abc"),
                Str("1,05,350.00"), Num(10535000) } }

\* a payload is to be parsed
ParserInit ==
  /\ ServerInit
  /\ ClientInit
  /\ mcxPayload \in Payloads
  /\ mcxParsed = Undefined

\* one call of parseMCXData(mcxPayload); the next payload arrives
ParsePayload ==
  /\ \E seed \in Seeds :
       mcxParsed' = [ data |-> mcxPayload, result |-> parseMCXData(mcxPayload, seed, now) ]
  /\ mcxPayload' \in Payloads
  /\ UNCHANGED << serverVars, clientVars >>

ParserSpec == ParserInit /\ [][ParsePayload]_vars

\* the first connection, its snapshots and every filter input
FilterNext ==
  \/ \E i \in ClientSocketIds : ClientConnect(i)
  \/ \E i \in ClientSocketIds, prices \in Snapshots : OnInitialData(i, prices)
  \/ \E i \in ClientSocketIds, prices \in Snapshots : OnPriceUpdate(i, prices)
  \/ \E cityFilter \in CityFilters, metalFilter \in MetalFilters, searchTerm \in SearchTerms :
       ApplyFilters(cityFilter, metalFilter, searchTerm)

FilterSpec == Init /\ [][FilterNext]_vars

\* the browser runs a due backoff timer, and a connection attempt against an
\* unreachable server ends in 'connect_error'
ClientFairSpec ==
  /\ ClientSpec
  /\ WF_vars(ReconnectTimer)
  /\ WF_vars(\E i \in ClientSocketIds : ClientConnectError(i))

\* the scheduler, the fetch completions and the timers
Next ==
  \/ InitComplete
  \/ FastTick
  \/ TickFetchComplete
  \/ ReEnableTimer
  \/ RegimeShift

Spec == Init /\ [][Next]_vars

\* the runtime runs a due timer callback and delivers the outcome of every
\* fetch (axios settles within its 10 s timeout)
FairSpec ==
  /\ Spec
  /\ WF_vars(ReEnableTimer)
  /\ WF_vars(TickFetchComplete)
  /\ WF_vars(InitComplete)

\* the scheduler, the fetch completions, the timers and the HTTP reads
HttpNext ==
  \/ InitComplete
  \/ FastTick
  \/ TickFetchComplete
  \/ ReEnableTimer
  \/ RegimeShift
  \/ GetPrices
  \/ GetPriceByCity
  \/ GetStatus

HttpSpec == Init /\ [][HttpNext]_vars

\* every writer of the store together with every reader of it: the HTTP
\* reads and the connections that are sent initialData
StoreNext ==
  \/ HttpNext
  \/ Connect
  \/ Disconnect

StoreSpec == Init /\ [][StoreNext]_vars

\* the scheduler, the fetch completions, the timers and the push channel
SocketNext ==
  \/ InitComplete
  \/ FastTick
  \/ TickFetchComplete
  \/ ReEnableTimer
  \/ RegimeShift
  \/ Connect
  \/ Disconnect
  \/ Subscribe
  \/ RequestUpdate

SocketSpec == Init /\ [][SocketNext]_vars

\* ------------------------------------------------------------ properties

\* every price of a table, as a set
pricesOf(prices) ==
  { prices[c].gold[k] : c \in DOMAIN prices, k \in { "24k", "22k", "18k" } }
    \cup { prices[c].silver[k] : c \in DOMAIN prices, k \in { "925", "999" } }

\* one complete bundle: all gold purities, both silver purities, the trend of
\* both commodities and lastUpdated
completeBundle(b) ==
  /\ { "gold", "silver", "trend", "lastUpdated" } \subseteq DOMAIN b
  /\ DOMAIN b.gold = { "24k", "22k", "18k" }
  /\ DOMAIN b.silver = { "925", "999" }
  /\ DOMAIN b.trend = { "gold", "silver" }

\* a valid full snapshot: one complete bundle for each configured city
fullSnapshot(prices) ==
  /\ DOMAIN prices = CityIds
  /\ \A c \in CityIds : completeBundle(prices[c])

\* new is old after one random-walk step: no gold price moved by more than
\* 0.2 % and no silver price by more than 0.3 % (each rounded)
randomWalkOf(old, new) ==
  /\ DOMAIN new = DOMAIN old
  /\ \A c \in DOMAIN old :
       /\ \A k \in { "24k", "22k", "18k" } :
            /\ walkPrice(old[c].gold[k], 0, 4) <= new[c].gold[k]
            /\ new[c].gold[k] <= walkPrice(old[c].gold[k], 100, 4)
       /\ \A k \in { "925", "999" } :
            /\ walkPrice(old[c].silver[k], 0, 6) <= new[c].silver[k]
            /\ new[c].silver[k] <= walkPrice(old[c].silver[k], 100, 6)

\* C1: in every reachable state every stored price, of every city and of every
\* purity of both commodities, is greater than zero.
C1_EveryStoredPricePositive ==
  \A p \in pricesOf(currentPrices) : p > 0

\* C2: when the request of a fast tick failed (timeout, transport error,
\* missing or unparsable payload) and the store held all cities, the tick
\* leaves every price one random-walk step from its previous stored value and
\* publishes the updated table once.
C2_FailedFetchWalksTheStore ==
  [][ ( /\ tickEnded'
        /\ fetched' # Undefined
        /\ fetched'.failed
        /\ DOMAIN currentPrices = CityIds )
      => ( /\ randomWalkOf(currentPrices, currentPrices')
           /\ emits' = 1
           /\ lastPublished' = currentPrices' ) ]_vars

\* C3: a fetch whose request timed out, met a non-success status or got a
\* missing or unparsable payload never resolves to a quote snapshot.
C3_FailedFetchYieldsNoQuote ==
  (fetched # Undefined /\ fetched.failed) => ~hasQuote(fetched.mcxData)

\* C4: no sequence of startup fetch, fast ticks, regime shifts and fetch
\* completions lets an error escape the scheduler callback: the process never
\* reaches the crashed state.
C4_NoErrorEscapes ==
  ~crashed

\* C5: whenever an HTTP read is served the store holds one bundle for each of
\* the 20 configured cities, GET /prices/{id} of a configured city is not a
\* 404 and GET /prices is not an empty table.
C5_StoreFullWhenServed ==
  httpResponse # Undefined =>
    /\ DOMAIN currentPrices = CityIds
    /\ Cardinality(DOMAIN currentPrices) = 20
    /\ httpResponse.route = "/api/prices" => httpResponse.body # << >>
    /\ ( httpResponse.route = "/api/prices/:cityId" /\ httpResponse.cityId \in CityIds )
         => httpResponse.status = 200

\* C6: every table a subscriber receives, the prices of initialData and every
\* priceUpdate, is a valid full snapshot.
C6_SubscribersSeeFullSnapshots ==
  \A m \in outbox :
    fullSnapshot(IF m.event = "initialData" THEN m.data.prices ELSE m.data)

\* C7: while the cooldown of a failed live fetch is still pending the live
\* source stays disabled.
C7_DisabledWhileCooldownPending ==
  timers # << >> => ~useMCXData

\* C8: whenever the live source is disabled it is eventually re-enabled
\* (unless the process has stopped).
C8_DisabledLeadsToEnabled ==
  (~useMCXData /\ ~crashed) ~> (useMCXData \/ crashed)

\* C9: every fast tick that ends has published exactly one priceUpdate, and
\* that update carries the full store.
C9_TickPublishesExactlyOnce ==
  tickEnded =>
    /\ emits = 1
    /\ lastPublished = currentPrices
    /\ fullSnapshot(lastPublished)

\* C10: once a broadcast has happened, the table GET /prices returns equals
\* the most recently published snapshot.
C10_ReadEqualsLastPublished ==
  ( /\ httpResponse # Undefined
    /\ httpResponse.route = "/api/prices"
    /\ lastPublished # Undefined )
  => httpResponse.body = lastPublished

\* C11: GET /prices/{cityId} with an id that is not a configured city id
\* yields a not-found result and leaves the store as it was.
C11_UnknownIdNotFound ==
  [][ ( /\ httpResponse' # Undefined
        /\ httpResponse'.route = "/api/prices/:cityId"
        /\ httpResponse'.cityId \notin CityIds )
      => ( /\ httpResponse'.status = 404
           /\ currentPrices' = currentPrices ) ]_vars

\* C12: a step in which a socket connects sends exactly one initialData, to
\* that socket alone, whose prices are the whole current store; no other step
\* sends initialData.
C12_InitialDataOncePerConnection ==
  [][ IF sockets' \ sockets # {}
      THEN \E id \in sockets' \ sockets :
             /\ sockets' = sockets \cup { id }
             /\ outbox' = { [ to    |-> { id },
                              event |-> "initialData",
                              data  |-> [ cities |-> METRO_CITIES,
                                          prices |-> currentPrices' ] ] }
      ELSE \A m \in outbox' : m.event # "initialData" ]_vars

\* a second socket has just connected, to a server whose store is full, and
\* was sent the store
C12_Witness ==
  /\ Cardinality(sockets) = 2
  /\ DOMAIN currentPrices = CityIds
  /\ \E m \in outbox : m.event = "initialData" /\ m.data.prices = currentPrices

\* C13: every publish is one priceUpdate that carries the whole current
\* store, all cities, and is delivered to every connected socket, whatever
\* rooms a socket joined by an earlier subscribe.
C13_PublishReachesEverySocket ==
  /\ emits = 1 =>
       outbox = { [to |-> sockets, event |-> "priceUpdate", data |-> currentPrices] }
  /\ \A m \in outbox :
       m.event = "priceUpdate" =>
         /\ emits = 1
         /\ DOMAIN m.data = CityIds

\* a publish with two sockets connected, one of which had subscribed to a
\* city and one of which had not
C13_Witness ==
  /\ emits = 1
  /\ \E i, j \in sockets : rooms[i] # {} /\ rooms[j] = {}
  /\ \E m \in outbox : m.event = "priceUpdate" /\ m.to = sockets

\* C14: whenever a client is connected, the server can answer its
\* requestUpdate with a snapshot sent in that very step.
C14_RequestUpdateAnswered ==
  sockets # {} => ENABLED (RequestUpdate /\ outbox' # {})

\* every change renderPriceGrid() shows is zero
allChangesZero(changes) ==
  \A cityId \in DOMAIN changes :
    /\ \A purity \in DOMAIN changes[cityId].gold : changes[cityId].gold[purity] = 0
    /\ \A purity \in DOMAIN changes[cityId].silver : changes[cityId].silver[purity] = 0

\* C15: once the client has handled its very first snapshot, an initialData
\* event, the previous table equals the current one and every change the
\* price grid renders is zero.
C15_FirstSnapshotShowsNoChange ==
  ( handled = 1 /\ incoming # Undefined /\ incoming.event = "initialData" )
    => /\ allPrices = incoming.data
       /\ previousPrices = allPrices
       /\ allChangesZero(renderPriceGrid(filteredData, allPrices, previousPrices))

\* the first snapshot, a full table, has just been handled
C15_Witness ==
  /\ handled = 1
  /\ incoming # Undefined /\ incoming.event = "initialData"
  /\ allPrices = SnapshotA
  /\ DOMAIN renderPriceGrid(filteredData, allPrices, previousPrices) = CityIds

\* C16: when the client handles a priceUpdate carrying the table S, the
\* current table becomes S and the previous table becomes the value the
\* current table had just before the update.
C16_UpdateShiftsCurrentToPrevious ==
  [][ ( incoming' # Undefined /\ incoming'.event = "priceUpdate" )
      => /\ allPrices' = incoming'.data
         /\ previousPrices' = allPrices ]_vars

\* an update with a table different from the current, non-empty one has been handled
C16_Witness ==
  /\ incoming # Undefined /\ incoming.event = "priceUpdate"
  /\ allPrices = SnapshotB
  /\ previousPrices = SnapshotA

\* the relative change from previous to current exceeds 0.5 %
relativeChangeExceeds(current, previous) ==
  LET diff == IF current >= previous THEN current - previous ELSE previous - current
      size == IF previous >= 0 THEN previous ELSE -previous
  IN  diff * 1000 > 5 * size

\* the significant-change toasts of this step for one city and one metal
toastsFor(metal, cityName) ==
  { k \in 1..Len(toasts) :
      /\ toasts[k].message = "significant"
      /\ toasts[k].metal = metal
      /\ toasts[k].city = cityName }

\* C17: on a priceUpdate, for every city present in both tables, exactly one
\* gold notification fires if the relative change of the 24 carat price
\* exceeds 0.5 % and none otherwise; likewise for silver 999.
C17_NotifiesIffChangeExceedsThreshold ==
  ( incoming # Undefined /\ incoming.event = "priceUpdate" )
    => \A cityId \in DOMAIN allPrices \cap DOMAIN previousPrices :
         LET current == allPrices[cityId]
             previous == previousPrices[cityId]
         IN  /\ Cardinality(toastsFor("Gold", current.cityInfo.name)) =
                  IF relativeChangeExceeds(current.gold["24k"], previous.gold["24k"])
                  THEN 1 ELSE 0
             /\ Cardinality(toastsFor("Silver", current.cityInfo.name)) =
                  IF relativeChangeExceeds(current.silver["999"], previous.silver["999"])
                  THEN 1 ELSE 0

Min(a, b) == IF a <= b THEN a ELSE b

\* the series holds the last Min(pushes, maxPoints) points pushed, in order
holdsMostRecent(series, pushed) ==
  LET n == Len(pushed)
      k == Min(n, maxPoints)
  IN  /\ Len(series.timestamps) = k
      /\ Len(series.prices) = k
      /\ \A j \in 1..k :
           << series.timestamps[j], series.prices[j] >> = pushed[n - k + j]

\* C18: each commodity's series never holds more than maxPoints (60) points,
\* and it holds exactly the most recent points appended, in their original
\* order: once more than 60 were appended, the last 60.
C18_SeriesKeepsMostRecentPoints ==
  /\ Len(chartData.gold.prices) <= maxPoints
  /\ Len(chartData.silver.prices) <= maxPoints
  /\ holdsMostRecent(chartData.gold, chartHistory.gold)
  /\ holdsMostRecent(chartData.silver, chartHistory.silver)

\* more than maxPoints points were appended, two of them evicted
C18_Witness ==
  /\ Len(chartHistory.gold) = maxPoints + 2
  /\ Len(chartData.gold.prices) = maxPoints
  /\ Len(chartHistory.silver) = maxPoints + 2
  /\ Len(chartData.silver.prices) = maxPoints

\* C19: every snapshot the client handles, the initial one as well as each
\* later update, appends exactly one point to each commodity's series: the
\* length grows by one, up to the cap.  (Stated for snapshots that carry a
\* full table.)
C19_EverySnapshotAppendsOnePoint ==
  [][ ( /\ incoming' # Undefined
        /\ incoming'.event \in { "initialData", "priceUpdate" }
        /\ DOMAIN incoming'.data = CityIds )
      => /\ Len(chartData'.gold.prices) = Min(Len(chartData.gold.prices) + 1, maxPoints)
         /\ Len(chartData'.silver.prices) = Min(Len(chartData.silver.prices) + 1, maxPoints)
         /\ Len(chartHistory'.gold) = Len(chartHistory.gold) + 1
         /\ Len(chartHistory'.silver) = Len(chartHistory.silver) + 1 ]_vars

\* C20: the connection attempts the client starts on its own since the last
\* successful connect never number more than maxRetries (5): after five
\* failed attempts in a row no further one is started.
C20_AttemptsBoundedByMaxRetries == attempts <= maxRetries

\* the toast that asks the user to act after the retries are used up
persistentFailureNotice == [ message |-> "Unable to reconnect. Please refresh the page." ]

\* C21: after a transport loss the client retries until it either connects
\* again or, the server staying unreachable, shows the persistent-failure
\* notice: every disconnect leads to a connect or to the notice.
C21_UnreachableLeadsToNotice ==
  ( incoming # Undefined /\ incoming.event = "disconnect" )
    ~> ( \/ incoming # Undefined /\ incoming.event = "connect"
         \/ \E k \in 1..Len(toasts) : toasts[k] = persistentFailureNotice )

\* the connections of the client that are connected or being established
outstandingConnections ==
  { i \in ClientSocketIds : clientSockets[i].status \in { "connected", "connecting" } }

\* C22: at every moment the client has at most one connection that is
\* connected or connecting.
C22_AtMostOneOutstandingConnection == Cardinality(outstandingConnections) <= 1

\* every change indicator the price grid holds is neutral
gridShowsNoChange ==
  \A cityId \in DOMAIN priceGrid :
    \A metal \in DOMAIN priceGrid[cityId].sections :
      \A purity \in DOMAIN priceGrid[cityId].sections[metal] :
        priceGrid[cityId].sections[metal][purity].change = 0

\* C23: the snapshot received after a reconnect is treated like the first
\* one: previous equals current, the grid rendered from it shows no change and
\* no significant-change notification is raised.
C23_ReconnectSnapshotShowsNoChange ==
  ( handled > 1 /\ incoming # Undefined /\ incoming.event = "initialData" )
    => /\ allPrices = incoming.data
       /\ previousPrices = allPrices
       /\ gridShowsNoChange
       /\ toasts = << >>

\* a city, metal or search filter is set
filterActive ==
  filterState.city # "" \/ filterState.metal # "" \/ filterState.search # ""

\* the cities of the current table that pass the city and the search filter
passingCities ==
  { cityId \in DOMAIN allPrices :
      passesFilters(cityId, allPrices[cityId], filterState.city, filterState.search) }

\* C24: while a filter is active, the grid rendered for an incoming price
\* update holds exactly the cities of the current table that pass the
\* filters, with the current prices and with the selected metal only.
\* (Stated for updates that follow a full table and of which at least one
\* city passes.)
C24_UpdateRendersCurrentFilteredView ==
  ( /\ filterActive
    /\ passingCities # {}
    /\ DOMAIN previousPrices = CityIds
    /\ incoming # Undefined /\ incoming.event = "priceUpdate" )
    => priceGrid = [ cityId \in passingCities |->
                       createCityCard(allPrices[cityId], previousPrices, filterState.metal) ]

\* C25: when applyFilters() has run with an active filter that no city of the
\* current table passes, the grid holds no city card.
C25_EmptyFilteredViewRendersNothing ==
  ( filterActive /\ passingCities = {} /\ incoming = Undefined )
    => priceGrid = << >>

\* the indicator class of sign(current - previous)
signClass(current, previous) ==
  IF current > previous THEN "positive"
  ELSE IF current < previous THEN "negative" ELSE "neutral"

\* C26: every price row of the grid whose city has previous data and whose
\* current and previous prices are non-negative shows the indicator of
\* sign(current - previous), a previous price of 0 included.
C26_IndicatorIsSignOfDifference ==
  \A cityId \in DOMAIN priceGrid \cap DOMAIN previousPrices :
    \A metal \in DOMAIN priceGrid[cityId].sections :
      \A purity \in DOMAIN priceGrid[cityId].sections[metal] :
        LET row == priceGrid[cityId].sections[metal][purity]
            previous == previousPrices[cityId][metal][purity]
        IN  ( row.price >= 0 /\ previous >= 0 )
              => row.changeClass = signClass(row.price, previous)

\* the last Min(Len(seq), k) elements of seq, in order
lastPoints(seq, k) ==
  [ j \in 1..Min(Len(seq), k) |-> seq[Len(seq) - Min(Len(seq), k) + j] ]

\* C27: selecting a timeframe makes the chart show exactly the last
\* min(len, k) points of its series, in order, with k = 60 for 1h, 36 for 6h
\* and 24 for 24h, and changes neither the series nor any other state.
C27_TimeframeShowsTailOfSeries ==
  [][ ( incoming' # Undefined /\ incoming'.event = "timeframe" )
      => LET metalType == incoming'.metalType
             k == CASE incoming'.timeframe = "1h"  -> 60
                    [] incoming'.timeframe = "6h"  -> 36
                    [] incoming'.timeframe = "24h" -> 24
         IN  /\ charts'[metalType].labels = lastPoints(chartData[metalType].timestamps, k)
             /\ charts'[metalType].data = lastPoints(chartData[metalType].prices, k)
             /\ \A other \in { "gold", "silver" } \ { metalType } :
                  charts'[other] = charts[other]
             /\ UNCHANGED << chartData, chartHistory, allPrices, previousPrices,
                             filteredData, filterState, priceGrid, handled,
                             retryCount, clientSockets, reconnectTimers, attempts >>
             /\ UNCHANGED << serverVars, parserVars >> ]_vars

\* the 24h timeframe was selected on a full series: 24 of its 60 points show
C27_Witness ==
  /\ incoming # Undefined /\ incoming.event = "timeframe"
  /\ incoming.timeframe = "24h"
  /\ Len(chartData[incoming.metalType].prices) = maxPoints
  /\ Len(charts[incoming.metalType].data) = 24
  /\ charts[incoming.metalType].data # chartData[incoming.metalType].prices

\* the city multiplier of synthetic generation, in 1/1000
variationOf(cityId) ==
  IF cityId \in DOMAIN cityVariations THEN cityVariations[cityId] ELSE 1000

\* price = round(basePrice * multiplier * jitter) for a jitter in [0.995, 1.005]
roundedProduct(price, basePrice, multiplier) ==
  \E jitter \in 9950..10050 : price = MathRound(basePrice * multiplier, jitter, 10000000)

\* C28: when the table is generated from the base prices, every price equals
\* round(basePrice * cityMultiplier * jitter) with the city's multiplier in
\* [0.98, 1.03] and a jitter in [0.995, 1.005]; base 105500, mumbai (1.02) and
\* jitter 1.0 give 107610.
C28_GeneratedPriceIsRoundedProduct ==
  [][ ( /\ initPc = "awaiting" /\ initPc' = "done"
        /\ ~hasQuote(fetched'.mcxData) )
      => /\ DOMAIN currentPrices' = CityIds
         /\ \A cityId \in CityIds :
              /\ variationOf(cityId) \in 980..1030
              /\ \A karat \in { "24k", "22k", "18k" } :
                   roundedProduct(currentPrices'[cityId].gold[karat],
                                  BASE_PRICES.gold[karat], variationOf(cityId))
              /\ \A purity \in { "999", "925" } :
                   roundedProduct(currentPrices'[cityId].silver[purity],
                                  BASE_PRICES.silver[purity], variationOf(cityId))
         /\ generateCityPrice(105500, "mumbai", 50) = 107610 ]_vars

\* the table has just been generated from the base prices
C28_Witness ==
  /\ initPc = "done"
  /\ fetched # Undefined /\ ~hasQuote(fetched.mcxData)
  /\ ~useMCXData
  /\ DOMAIN currentPrices = CityIds
  /\ \A cityId \in CityIds : "mcxData" \notin DOMAIN currentPrices[cityId]
  /\ currentPrices["mumbai"].gold["24k"] = generateCityPrice(BASE_PRICES.gold["24k"], "mumbai", 0)

\* a quote without the time it was read at
quoteValues(q) == IF Truthy(q) THEN [q EXCEPT !.timestamp = 0] ELSE q

\* the two results of fetchLiveData() carry the same reference quotes
sameQuotes(a, b) ==
  /\ quoteValues(a.gold) = quoteValues(b.gold)
  /\ quoteValues(a.silver) = quoteValues(b.silver)

\* the price sets and trends of a table
pricesAndTrends(prices) ==
  [ cityId \in DOMAIN prices |->
      [ gold   |-> prices[cityId].gold,
        silver |-> prices[cityId].silver,
        trend  |-> prices[cityId].trend ] ]

NumericStrings ==
  { "105350", "124100.5", "104900", "-5", "0.3", "0", "0.45", "-0.25", "0.1" }

\* the field holds a number or a string that is a number
numericField(x) ==
  \/ x.t = "number"
  \/ x.t = "string" /\ x.v \in NumericStrings

\* C30: parseMCXData() returns for every payload (it never throws), and in a
\* quote it parses, a last traded price that is missing or not numeric in the
\* record is read as 0.
C30_ParsingDefaultsToZero ==
  mcxParsed # Undefined
    => /\ mcxParsed.result # TypeError
       /\ \A item \in { mcxParsed.data.items[1] :
                          x \in { y \in { mcxParsed.data } :
                                    y.t = "array" /\ Len(y.items) = 1 } } :
            ( /\ item.t = "object"
              /\ item.Symbol = Str("GOLD")
              /\ ~numericField(item.LTP) )
              => /\ Truthy(mcxParsed.result.gold)
                 /\ mcxParsed.result.gold.ltp = 0


\* the step applies the response of a fast tick's fetch that was started
\* before the fetch whose response the previous step applied
appliesOlderResponse ==
  /\ fetched # Undefined /\ fetched.tick > 0
  /\ fetched' # Undefined /\ fetched'.tick > 0
  /\ fetched'.tick < fetched.tick

\* C31: when the response of a later-started fetch of a fast tick has been
\* applied to the store, the response of an earlier-started fetch that arrives
\* next is discarded: the store keeps its content and nothing is published.
C31_LateResponseDiscarded ==
  [][ appliesOlderResponse
        => /\ currentPrices' = currentPrices
           /\ emits' = 0
           /\ lastPublished' = lastPublished ]_vars


\* the table is the result of whole writes only: it is empty or holds one
\* complete bundle per configured city, all written by the same handler run
wholeWrite(prices) ==
  /\ DOMAIN prices \in { {}, CityIds }
  /\ \A c \in DOMAIN prices :
       /\ completeBundle(prices[c])
       /\ \A other \in DOMAIN prices : prices[other].lastUpdated = prices[c].lastUpdated

\* the price tables this step's handler sent: in a priceUpdate, in an
\* initialData, or as the body of GET /api/prices
sentTables ==
  { m.data : m \in { x \in outbox : x.event = "priceUpdate" } }
    \cup { m.data.prices : m \in { x \in outbox : x.event = "initialData" } }
    \cup { r.body : r \in { x \in { httpResponse } :
                              x # Undefined /\ x.route = "/api/prices" } }

\* C32: whatever the interleaving of fast ticks (suspended on their fetch or
\* not), regime shifts, HTTP reads and connections, the store and every table
\* read or published are the result of whole writes: no table mixes bundles
\* of different writes and no bundle is partly updated.
C32_WritesAreAtomic ==
  /\ wholeWrite(currentPrices)
  /\ \A prices \in sentTables : wholeWrite(prices) /\ prices = currentPrices
  /\ ( httpResponse # Undefined /\ httpResponse.route = "/api/prices/:cityId"
       /\ httpResponse.status = 200 /\ httpResponse.cityId \in CityIds )
       => httpResponse.body = currentPrices[httpResponse.cityId]

\* a table written at a later time than the startup one is read while a fast
\* tick is suspended on its fetch
C32_Witness ==
  /\ fetches # {}
  /\ httpResponse # Undefined /\ httpResponse.route = "/api/prices"
  /\ DOMAIN httpResponse.body = CityIds
  /\ \A c \in CityIds : httpResponse.body[c].lastUpdated = now
  /\ now > 1


\* the trend the quote of one commodity stands for: changePercent (in 1/100 of
\* a percent) above 0.1 is up, below -0.1 is down, anything else and a
\* missing commodity is stable
trendOfQuote(q) ==
  IF Truthy(q) /\ q.changePercent > 10 THEN "up"
  ELSE IF Truthy(q) /\ q.changePercent < -10 THEN "down"
  ELSE "stable"

\* the step is the end of a fast tick whose fetch succeeded with a quote
successfulLiveTick ==
  /\ fetched' # Undefined
  /\ fetched'.tick > 0
  /\ ~fetched'.failed
  /\ hasQuote(fetched'.mcxData)

\* C33: a successful live fast tick overwrites the bundle of every city, and
\* in every city the trend of each commodity is the one its changePercent
\* stands for (up above 0.1, down below -0.1, stable otherwise).
C33_LiveTickSetsTrendFromChangePercent ==
  [][ successfulLiveTick
        => \A c \in CityIds :
             /\ c \in DOMAIN currentPrices'
             /\ currentPrices'[c].lastUpdated = now'
             /\ currentPrices'[c].gold = calculateGoldPrices(fetched'.mcxData.gold, c)
             /\ currentPrices'[c].silver = calculateSilverPrices(fetched'.mcxData.silver, c)
             /\ currentPrices'[c].trend.gold = trendOfQuote(fetched'.mcxData.gold)
             /\ currentPrices'[c].trend.silver = trendOfQuote(fetched'.mcxData.silver) ]_vars

\* a live tick ended with a silver quote of exactly 0.1 % and a falling gold
\* quote, over a store that an earlier write had filled
C33_Witness ==
  /\ fetched # Undefined /\ fetched.tick > 0 /\ ~fetched.failed
  /\ Truthy(fetched.mcxData.gold) /\ fetched.mcxData.gold.changePercent = -25
  /\ Truthy(fetched.mcxData.silver) /\ fetched.mcxData.silver.changePercent = 10
  /\ initPc = "done"
  /\ \A c \in CityIds : /\ currentPrices[c].trend.silver = "stable"
                        /\ currentPrices[c].trend.gold = "down"


\* new = round(old * (1 + d)) for a d of at most maxChange (in 1/100000) in
\* either direction
perturbed(old, new, maxChange) ==
  \E d \in (-maxChange)..maxChange : new = MathRound(old, 100000 + d, 100000)

\* the step ran updatePricesSimulated() to its end: a fast tick ended and
\* published without a quote of its own
syntheticTick ==
  /\ tickEnded'
  /\ emits' = 1
  /\ fetched' = Undefined \/ ~hasQuote(fetched'.mcxData)

\* C34: a synthetic tick derives every price from the stored price of the same
\* city and purity, new = round(old * (1 + d)) with |d| <= 0.2 % for gold and
\* |d| <= 0.3 % for silver, and leaves the base table unchanged.
C34_SyntheticTickWalksStoredPrices ==
  [][ syntheticTick
        => /\ DOMAIN currentPrices' = CityIds
           /\ DOMAIN currentPrices = CityIds
           /\ \A c \in CityIds :
                /\ \A k \in { "24k", "22k", "18k" } :
                     perturbed(currentPrices[c].gold[k], currentPrices'[c].gold[k], 200)
                /\ \A k \in { "999", "925" } :
                     perturbed(currentPrices[c].silver[k], currentPrices'[c].silver[k], 300)
           /\ BASE_PRICES' = BASE_PRICES ]_vars

\* a synthetic tick has walked a store that was derived from a live quote
C34_Witness ==
  /\ tickEnded /\ emits = 1 /\ fetched = Undefined
  /\ ~useMCXData
  /\ DOMAIN currentPrices = CityIds
  /\ \A c \in CityIds : "mcxData" \in DOMAIN currentPrices[c]
  /\ lastPublished = currentPrices


\* the step is the regime shift: the clock advances and no fast tick starts a
\* fetch or ends
regimeShiftStep ==
  /\ now' = now + 1
  /\ ~tickEnded'
  /\ fetches' = fetches

\* every entry of the new base table is the old one times 1 + f/10000, rounded
shockedBy(old, new, f) ==
  /\ \A k \in DOMAIN old.gold : new.gold[k] = MathRound(old.gold[k], 10000 + f, 10000)
  /\ \A k \in DOMAIN old.silver : new.silver[k] = MathRound(old.silver[k], 10000 + f, 10000)

\* the prices the from-base formula can give a city for one base price
fromBase(basePrice, cityId) ==
  { generateCityPrice(basePrice, cityId, r) : r \in 0..99 }

\* C35: a regime shift multiplies every entry of the base table by one and the
\* same factor within +-1 % and then replaces the bundle of every configured
\* city by one generated from the new base table alone.
C35_RegimeShiftRegeneratesFromShockedBase ==
  [][ regimeShiftStep
        => /\ \E f \in -100..100 : shockedBy(BASE_PRICES, BASE_PRICES', f)
           /\ \A c \in CityIds :
                /\ c \in DOMAIN currentPrices'
                /\ DOMAIN currentPrices'[c] =
                     { "cityInfo", "gold", "silver", "lastUpdated", "trend" }
                /\ currentPrices'[c].lastUpdated = now'
                /\ \A k \in { "24k", "22k", "18k" } :
                     currentPrices'[c].gold[k] \in fromBase(BASE_PRICES'.gold[k], c)
                /\ \A k \in { "999", "925" } :
                     currentPrices'[c].silver[k] \in fromBase(BASE_PRICES'.silver[k], c) ]_vars

\* a regime shift with a shock other than 0 has replaced a store that had
\* been derived from a live quote and published
C35_Witness ==
  /\ BASE_PRICES # InitialBasePrices
  /\ lastPublished # Undefined
  /\ \A c \in CityIds : /\ "mcxData" \in DOMAIN lastPublished[c]
                        /\ "mcxData" \notin DOMAIN currentPrices[c]
                        /\ currentPrices[c].lastUpdated = now
  /\ ~tickEnded /\ fetched = Undefined


\* the sockets of the page on which a priceUpdate the server emits is
\* delivered and handled: io.emit reaches every connected socket, and each
\* socket initializeSocket() created carries its own priceUpdate handler
updateReceivers ==
  { i \in ClientSocketIds : clientSockets[i].status = "connected" /\ clientSockets[i].greeted }

\* C36: a priceUpdate the client applies was delivered on one socket of the
\* page only, so a published snapshot is applied once (one rotation of
\* previous and current prices, one chart point), also after reconnections.
C36_PublishedUpdateAppliedOnce ==
  [][ ( incoming' # Undefined /\ incoming'.event = "priceUpdate" )
        => Cardinality(updateReceivers) = 1 ]_vars


\* the prices of one bundle are in purity order
purityOrdered(bundle) ==
  /\ bundle.gold["24k"] >= bundle.gold["22k"]
  /\ bundle.gold["22k"] >= bundle.gold["18k"]
  /\ bundle.silver["999"] >= bundle.silver["925"]

\* C37: in every reachable state every bundle of the store has its prices in
\* purity order: gold 24k >= 22k >= 18k and silver 999 >= 925.
C37_PurityOrderPreserved ==
  \A c \in DOMAIN currentPrices : purityOrdered(currentPrices[c])


\* the price the from-base formula gives the city for a reference price when
\* the random variation is exactly 1.0
syntheticLevel(referencePrice, cityId) ==
  generateCityPrice(referencePrice, cityId, 50)

\* the silver 999 price the live derivation gives the city for a quote whose
\* last traded price is the reference price
liveLevel(referencePrice, cityId) ==
  calculateSilverPrices(Quote("SILVER", referencePrice * 100, 0, now), cityId)["999"]

\* C38: for every configured city the synthetic from-base generation and the
\* live-quote derivation use the same multiplier: for one reference price
\* (the current base price of silver 999) both give the city the same price.
C38_SameMultiplierOnBothPaths ==
  \A c \in CityIds :
    syntheticLevel(BASE_PRICES.silver["999"], c) = liveLevel(BASE_PRICES.silver["999"], c)


\* C39: the timeframe selected for a chart stays in force: after the price
\* update that follows the selection of a timeframe of k points, the chart
\* still shows at most k points.
C39_TimeframeKeptAcrossUpdates ==
  [][ ( /\ incoming # Undefined /\ incoming.event = "timeframe"
        /\ incoming' # Undefined /\ incoming'.event = "priceUpdate" )
        => Len(charts'[incoming.metalType].data) <= timeframePoints(incoming.timeframe) ]_vars


\* the store holds bundles built by initializePrices() (walked since or not):
\* no bundle carries the mcxData field that convertToLocationPrices() adds
generatedFromBase(prices) ==
  /\ DOMAIN prices = CityIds
  /\ \A c \in CityIds : "mcxData" \notin DOMAIN prices[c]

\* C40: GET /api/status reports the source of the data in the store: while the
\* store holds synthetically generated bundles it reports the simulated
\* source with the live flag off.
C40_StatusReportsSourceOfStore ==
  ( /\ httpResponse # Undefined
    /\ httpResponse.route = "/api/status"
    /\ generatedFromBase(currentPrices) )
    => /\ httpResponse.body.dataSource = "Simulated Data"
       /\ httpResponse.body.mcxEnabled = FALSE

====
